---- MODULE Spec2Model ----
(***************************************************************************)
(* A model of OgreInterface: the Interface object of surfaces.py (its      *)
(* construction pipeline, shift_film and the operations that follow        *)
(* finalization) and the Miller-index enumeration of miller.py.            *)
(*                                                                         *)
(* Floating-point numbers are modelled as exact rationals [n, d] in lowest *)
(* terms, so that equality of records is equality of numbers.  A structure *)
(* is a lattice with one in-plane vector (length a) and the out-of-plane   *)
(* vector (length c), and a sequence of sites [sp, x, z] holding           *)
(* fractional coordinates, as pymatgen stores them.                        *)
(***************************************************************************)
EXTENDS Integers, Sequences, FiniteSets, TLC

--------------------------------------------------------------------------
(* Exact rational arithmetic *)

Abs(n) == IF n < 0 THEN -n ELSE n

RECURSIVE GCD(_, _)
GCD(a, b) == IF b = 0 THEN a ELSE GCD(b, a % b)

Rat(n, d) ==
  LET g == GCD(Abs(n), Abs(d))
      s == IF d < 0 THEN -1 ELSE 1
  IN  [n |-> (s * n) \div g, d |-> (s * d) \div g]

RInt(k) == [n |-> k, d |-> 1]
RZero == RInt(0)
ROne == RInt(1)
RHalf == Rat(1, 2)
RAdd(p, q) == Rat(p.n * q.d + q.n * p.d, p.d * q.d)
RNeg(p) == [n |-> -p.n, d |-> p.d]
RSub(p, q) == RAdd(p, RNeg(q))
RMul(p, q) == Rat(p.n * q.n, p.d * q.d)
RDiv(p, q) == Rat(p.n * q.d, p.d * q.n)
RLt(p, q) == p.n * q.d < q.n * p.d
\* nan, written 0/0: RLt is False of it, as every comparison with nan is
NaN == [n |-> 0, d |-> 0]
\* np.mod(f, 1): the fractional part, in [0, 1)
RMod1(p) == Rat(p.n % p.d, p.d)

RECURSIVE RSum(_)
RSum(s) == IF s = <<>> THEN RZero ELSE RAdd(Head(s), RSum(Tail(s)))

RECURSIVE Flatten(_)
Flatten(ss) == IF ss = <<>> THEN <<>> ELSE Head(ss) \o Flatten(Tail(ss))

Range(s) == {s[i] : i \in DOMAIN s}

--------------------------------------------------------------------------
(* Bounds of the model *)

\* layers of a slab (one atom per layer and unit cell)
MaxLayers == 2
\* entries of the (1x1 in-plane) transformation matrices: 1 .. MaxScale
MaxScale == 2
\* calls made on an interface after finalization
MaxCalls == 2
\* sites an interface may grow to under make_supercell
MaxSites == 8
\* spacing of the atomic layers of a slab, in Angstrom
LayerSpacing == 1
\* in-plane length of the substrate unit cell, in Angstrom
UnitCellA == 4
\* the large vacuum offered to the constructor, in Angstrom
BigVacuum == 9

--------------------------------------------------------------------------
(* Program constants *)

\* shift_film: "interfacial distance of less than 0.5 Angstroms"
MinDistance == Rat(1, 2)
\* shift_film: frac_coords[:,-1] < 0.99
TopCut == Rat(99, 100)

--------------------------------------------------------------------------
(* pymatgen Structure operations used by Interface *)

NoStructure == [lattice |-> [a |-> ROne, c |-> ROne], sites |-> <<>>]

ZCoords(sites) == [i \in DOMAIN sites |-> sites[i].z]

\* Structure.translate_sites(indices, vector) with the default
\* to_unit_cell=True: fractional coordinates are wrapped into [0, 1)
TranslateSites(sites, inds, vec) ==
  [i \in DOMAIN sites |->
     IF i \in inds
     THEN [sp |-> sites[i].sp,
           x |-> RMod1(RAdd(sites[i].x, vec.x)),
           z |-> RMod1(RAdd(sites[i].z, vec.z))]
     ELSE sites[i]]

\* Structure.remove_sites(indices)
RemoveSites(sites, inds) ==
  LET keep == {i \in DOMAIN sites : i \notin inds}
      RECURSIVE Pick(_)
      Pick(i) == IF i > Len(sites) THEN <<>>
                 ELSE IF i \in keep THEN <<sites[i]>> \o Pick(i + 1)
                 ELSE Pick(i + 1)
  IN  Pick(1)

\* Lattice.get_fractional_coords of a cartesian vector
GetFractionalCoords(lattice, v) ==
  [x |-> RDiv(v.x, lattice.a), z |-> RDiv(v.z, lattice.c)]

\* Structure.make_supercell with scaling sx in plane and sz out of plane:
\* every site is repeated on the sx*sz translations, site by site
MakeSupercell(struc, sx, sz) ==
  LET Replicas(s) ==
        [k \in 1..(sx * sz) |->
           [sp |-> s.sp,
            x |-> RMod1(RDiv(RAdd(s.x, RInt((k - 1) % sx)), RInt(sx))),
            z |-> RMod1(RDiv(RAdd(s.z, RInt((k - 1) \div sx)), RInt(sz)))]]
  IN  [lattice |-> [a |-> RMul(struc.lattice.a, RInt(sx)),
                    c |-> RMul(struc.lattice.c, RInt(sz))],
       sites |-> Flatten([i \in DOMAIN struc.sites |->
                           Replicas(struc.sites[i])])]

--------------------------------------------------------------------------
(* The inputs of Interface.__init__ *)

\* chemistry: "A" occurs only in the substrate bulk, "B" only in the film
\* bulk, "X" in both
SubstrateOnly == "A"
FilmOnly == "B"
Shared == "X"

\* the species of a slab, bottom layer first
SlabSpecies(kind, n, own) ==
  [l \in 1..n |->
     CASE kind = "pure" -> own
       [] kind = "mixed" -> IF l % 2 = 1 THEN own ELSE Shared
       [] OTHER -> Shared]

SlabKinds == {"pure", "mixed", "shared"}

\* Surface.slab_pmg: n layers LayerSpacing apart below the slab's own
\* vacuum, one atom per layer at the in-plane origin
SlabStructure(species, a) ==
  LET n == Len(species)
      c == RInt((n - 1) * LayerSpacing + BigVacuum)
  IN  [lattice |-> [a |-> a, c |-> c],
       sites |-> [l \in 1..n |->
                    [sp |-> species[l], x |-> RZero,
                     z |-> RDiv(RInt((l - 1) * LayerSpacing), c)]]]

Substrates ==
  {SlabStructure(SlabSpecies(k, n, SubstrateOnly), RInt(UnitCellA)) :
     k \in SlabKinds, n \in 1..MaxLayers}

Films ==
  {SlabStructure(SlabSpecies(k, n, FilmOnly), RInt(UnitCellA)) :
     k \in SlabKinds, n \in 1..MaxLayers}

InterfacialDistances == {RZero, RInt(1), RInt(2)}
Vacuums == {RZero, RInt(BigVacuum)}

--------------------------------------------------------------------------
(* Interface: the construction pipeline *)

\* _prepare_slab: the supercell of the slab under the transformation matrix
PrepareSlab(slab, matrix) == MakeSupercell(slab, matrix, 1)

\* _get_interface_sl_vecs with sub_strain_frac == 0: the substrate's vectors
GetInterfaceSlVecs(substrate_supercell) == substrate_supercell.lattice.a

\* _strain_and_orient_sub / _strain_and_orient_film: the supercell on the
\* shared in-plane vectors, its own out-of-plane vector kept
StrainAndOrient(supercell, sl_vecs) ==
  [lattice |-> [a |-> sl_vecs, c |-> supercell.lattice.c],
   sites |-> supercell.sites]

RECURSIVE RMinOf(_)
RMinOf(s) ==
  IF Len(s) = 1 THEN s[1]
  ELSE LET m == RMinOf(Tail(s)) IN IF RLt(s[1], m) THEN s[1] ELSE m

RECURSIVE RMaxOf(_)
RMaxOf(s) ==
  IF Len(s) = 1 THEN s[1]
  ELSE LET m == RMaxOf(Tail(s)) IN IF RLt(m, s[1]) THEN s[1] ELSE m

\* interface_c_len of _stack_interface
InterfaceCLen(strained_sub, strained_film, vacuum, distance) ==
  RSum(<<RMul(RSub(RMaxOf(ZCoords(strained_sub.sites)),
                   RMinOf(ZCoords(strained_sub.sites))),
              strained_sub.lattice.c),
         RMul(RSub(RMaxOf(ZCoords(strained_film.sites)),
                   RMinOf(ZCoords(strained_film.sites))),
              strained_film.lattice.c),
         vacuum, distance>>)

\* strained_*_coords[:,-1] *= conv_factor, then -= np.min(...)
RescaledHeights(struc, c_len, zmin) ==
  [i \in DOMAIN struc.sites |->
     RSub(RMul(struc.sites[i].z, RDiv(struc.lattice.c, c_len)),
          RMul(zmin, RDiv(struc.lattice.c, c_len)))]

\* Structure(..., to_unit_cell=True) on the sites of a slab at new heights
SitesAt(struc, zs, offset) ==
  [i \in DOMAIN struc.sites |->
     [sp |-> struc.sites[i].sp, x |-> RMod1(struc.sites[i].x),
      z |-> RMod1(RAdd(zs[i], offset))]]

\* interface_struc and interface_height of _stack_interface, from the
\* rescaled heights of the two slabs
StackHeights(strained_sub, strained_film, zs, zf, distance, c_len) ==
  [struc |->
     [lattice |-> [a |-> strained_sub.lattice.a, c |-> c_len],
      sites |-> SitesAt(strained_sub, zs, RZero)
                \o SitesAt(strained_film, zf,
                           RAdd(RMaxOf(zs), RDiv(distance, c_len)))],
   interface_height |->
     RAdd(RMaxOf(zs), RDiv(RMul(RHalf, distance), c_len))]

StackWith(strained_sub, strained_film, distance, c_len) ==
  StackHeights(strained_sub, strained_film,
               RescaledHeights(strained_sub, c_len,
                               RMinOf(ZCoords(strained_sub.sites))),
               RescaledHeights(strained_film, c_len,
                               RMinOf(ZCoords(strained_film.sites))),
               distance, c_len)

\* the first part of _stack_interface: the stacked structure (substrate
\* sites first, wrapped into the unit cell) and interface_height
Stack(strained_sub, strained_film, vacuum, distance) ==
  StackWith(strained_sub, strained_film, distance,
            InterfaceCLen(strained_sub, strained_film, vacuum, distance))

\* the site moved by 1/g of the in-plane lattice vector
ShiftedInPlane(site, g) ==
  [sp |-> site.sp, x |-> RMod1(RAdd(site.x, Rat(1, g))), z |-> site.z]

\* the sites, each by its index, moved by 1/g of the in-plane vector
SitesShifted(sites, g) ==
  {<<j, ShiftedInPlane(sites[j], g)>> : j \in DOMAIN sites}

\* every position holds as many of the moved sites as it holds sites
SameCounts(sites, shifted) ==
  \A i \in DOMAIN sites :
    Cardinality({moved \in shifted : moved[2] = sites[i]})
      = Cardinality({j \in DOMAIN sites : sites[j] = sites[i]})

\* the translation by 1/g of the in-plane vector maps the structure onto
\* itself
MapsOntoItself(sites, g) == SameCounts(sites, SitesShifted(sites, g))

Largest(numbers) == CHOOSE g \in numbers : \A h \in numbers : h <= g

\* the number of in-plane translations that map the structure onto itself
TranslationOrder(struc) ==
  Largest({g \in 1..Len(struc.sites) : MapsOntoItself(struc.sites, g)})

\* the cell that is 1/g of the given one in plane, with the sites in it
ReducedCell(struc, g) ==
  [lattice |-> [a |-> RDiv(struc.lattice.a, RInt(g)), c |-> struc.lattice.c],
   sites |-> [i \in DOMAIN struc.sites |->
                [sp |-> struc.sites[i].sp,
                 x |-> RMod1(RMul(struc.sites[i].x, RInt(g))),
                 z |-> struc.sites[i].z]]]

\* a variant that keeps the sites of every cell
KeepEveryCell(struc, g) == struc

KeepFirstCell(struc, g) ==
  [lattice |-> struc.lattice,
   sites |-> RemoveSites(struc.sites,
               {i \in DOMAIN struc.sites : ~RLt(struc.sites[i].x, Rat(1, g))})]

PrimitiveCell(struc, g) == ReducedCell(KeepFirstCell(struc, g), g)

\* Structure.get_primitive_structure: the smallest cell with the same
\* periodic arrangement; of the translation-equivalent sites one is kept
GetPrimitiveStructure(struc) == PrimitiveCell(struc, TranslationOrder(struc))

\* the settings in which the standardised cell can come out: with the
\* out-of-plane axis as stacked, or pointing the other way
Orientations == {"kept", "inverted"}

InvertAxis(struc) ==
  [lattice |-> struc.lattice,
   sites |-> [i \in DOMAIN struc.sites |->
                [sp |-> struc.sites[i].sp, x |-> struc.sites[i].x,
                 z |-> RMod1(RSub(ROne, struc.sites[i].z))]]]

\* the refinement chain of _stack_interface: get_reduced_structure,
\* get_conventional_standard_structure, get_reduced_structure,
\* get_primitive_structure
Refine(struc, orientation) ==
  IF orientation = "kept" THEN GetPrimitiveStructure(struc)
  ELSE InvertAxis(GetPrimitiveStructure(struc))

\* _get_unique_species, then the removal of species_in_both
\* (_stack_interface): the species exclusive to the substrate and to the film
SpeciesOf(struc) == {s.sp : s \in Range(struc.sites)}

ExclusiveSpecies(substrate, film) ==
  [substrate |-> SpeciesOf(substrate) \ SpeciesOf(film),
   film |-> SpeciesOf(film) \ SpeciesOf(substrate)]

\* np.mean of a sequence of numbers; the mean of none is nan
Mean(zs) == IF zs = <<>> THEN NaN ELSE RDiv(RSum(zs), RInt(Len(zs)))

\* np.mean of the heights of the sites of the given species
MeanHeight(sites, species) ==
  Mean(ZCoords(RemoveSites(sites,
                {i \in DOMAIN sites : sites[i].sp \notin species})))

\* average_film_height_prim < average_sub_height_prim
FilmBelowSubstrate(sites, excl) ==
  RLt(MeanHeight(sites, excl.film), MeanHeight(sites, excl.substrate))

\* _flip_structure: the rotation by 180 degrees about [1,1,0] through the
\* cell centre, applied to the fractional coordinates without wrapping
FlipStructure(struc) ==
  [lattice |-> struc.lattice,
   sites |-> [i \in DOMAIN struc.sites |->
                [sp |-> struc.sites[i].sp, x |-> struc.sites[i].x,
                 z |-> RSub(ROne, struc.sites[i].z)]]]

\* the site indices np.where selects
SitesAbove(sites, h) == {i \in DOMAIN sites : RLt(h, sites[i].z)}
SitesBelow(sites, h) == {i \in DOMAIN sites : RLt(sites[i].z, h)}

\* the end of _stack_interface: primitive_film and primitive_sub are deep
\* copies from which the sites of the other side are removed
SplitViews(struc, height, flipped) ==
  [interface |-> struc,
   sub_part |-> RemoveSites(struc.sites, SitesAbove(struc.sites, height)),
   film_part |-> RemoveSites(struc.sites, SitesBelow(struc.sites, height)),
   interface_height |-> height,
   flipped |-> flipped]

\* if self.center: translate every site by 0.5 - interface_height
Recenter(struc, height, center, flipped) ==
  IF center
  THEN SplitViews([lattice |-> struc.lattice,
                   sites |-> TranslateSites(struc.sites, DOMAIN struc.sites,
                                [x |-> RZero, z |-> RSub(RHalf, height)])],
                  RHalf, flipped)
  ELSE SplitViews(struc, height, flipped)

\* if average_film_height_prim < average_sub_height_prim: flip
Orient(refined, height, center, flipped) ==
  IF flipped THEN Recenter(FlipStructure(refined), height, center, flipped)
  ELSE Recenter(refined, height, center, flipped)

Finalize(refined, height, inp) ==
  Orient(refined, height, inp.center,
         FilmBelowSubstrate(refined.sites,
                            ExclusiveSpecies(inp.substrate, inp.film)))

Refined(stacked, inp, orientation) ==
  Finalize(Refine(stacked.struc, orientation), stacked.interface_height, inp)

\* _stack_interface
StackInterface(strained_sub, strained_film, inp, orientation) ==
  Refined(Stack(strained_sub, strained_film, inp.vacuum,
                inp.interfacial_distance),
          inp, orientation)

--------------------------------------------------------------------------
(* Interface: state *)

VARIABLES
  phase,                 \* "Unbuilt" before Interface.__init__, then "Finalized"
  inputs,                \* the arguments of Interface.__init__
  substrate_supercell,   \* self.substrate_supercell
  film_supercell,        \* self.film_supercell
  interface,             \* self.interface
  sub_part,              \* self.sub_part (its sites)
  film_part,             \* self.film_part (its sites)
  interface_height,      \* self.interface_height
  interfacial_distance,  \* self.interfacial_distance
  returned,              \* the structure shift_film(inplace=False) handed out
  last,                  \* the last call on the Interface and its outcome
  ncalls                 \* calls made on the finalized interface so far

ivars == <<phase, inputs, substrate_supercell, film_supercell, interface,
           sub_part, film_part, interface_height, interfacial_distance,
           returned, last, ncalls>>

\* of a MillerSearch whose substrate and film are the same bulk structure,
\* with the same max index: the structure and the index, the orders in which
\* the sets were iterated in the last enumeration, and the two lists of
\* unique indices
VARIABLES bulk, max_substrate_index, iteration, substrate_inds, film_inds,
          searched, raised

mvars == <<bulk, max_substrate_index, iteration, substrate_inds, film_inds,
           searched, raised>>

\* of a Surface: the conventional slab, the primitive slab, the exception
\* the last remove_layers raised, the calls of remove_layers so far, the
\* ase.Atoms forms of the two slabs, and self.termination
VARIABLES slab_pmg, primitive_slab_pmg, surface_raised, removals,
          slab_ase, primitive_slab_ase, termination

svars == <<slab_pmg, primitive_slab_pmg, surface_raised, removals,
           slab_ase, primitive_slab_ase, termination>>

\* of a worker-pool scan of the Interface (run_surface_matching_ewald,
\* run_surface_matching_pmg_zbl, run_surface_matching_ionic): the call and
\* its locals, the worker processes of the pool, and the results the pool
\* has received
VARIABLES scan, workers, results

pvars == <<scan, workers, results>>

\* of a Surface, for its crystallographic directions: self.miller_index, the
\* products of the vectors of self.bulk_ase.cell, and
\* self.crystallographic_directions with the locals it was computed from
VARIABLES miller_index, bulk_cell, crystallographic_directions

dvars == <<miller_index, bulk_cell, crystallographic_directions>>

\* of a call of Interface.run_surface_matching: how far it has come and its
\* locals
VARIABLES matching

xvars == <<matching>>

\* the variables of the other objects
beside_interface == <<mvars, svars, pvars, dvars, xvars>>
beside_search == <<ivars, svars, pvars, dvars, xvars>>
beside_surface == <<ivars, mvars, pvars, dvars, xvars>>
beside_scan == <<mvars, svars, dvars, xvars>>
beside_directions == <<ivars, mvars, svars, pvars, xvars>>
beside_matching == <<ivars, mvars, svars, pvars, dvars>>

NoVector == [x |-> RZero, z |-> RZero]

NoCall == [op |-> "none", ok |-> TRUE, fractional |-> FALSE, inplace |-> FALSE,
           shift |-> NoVector, frac_shift |-> NoVector, film_ind |-> {},
           distance_before |-> RZero, flipped |-> FALSE,
           orientation |-> "kept"]

NoReturned == [live |-> FALSE, sites |-> <<>>]

InterfaceInputs ==
  [substrate : Substrates, film : Films,
   substrate_transformation : 1..MaxScale, film_transformation : 1..MaxScale,
   interfacial_distance : InterfacialDistances, vacuum : Vacuums,
   center : BOOLEAN]

\* the stacked cell has a positive height
ValidInputs(inp) ==
  RLt(RZero, RSum(<<RInt((Len(inp.substrate.sites) - 1) * LayerSpacing),
                    RInt((Len(inp.film.sites) - 1) * LayerSpacing),
                    inp.vacuum, inp.interfacial_distance>>))

\* the inputs the operations on a finalized interface are explored from:
\* slabs of one chemistry each, unit transformation matrices
PlainInputs ==
  {inp \in InterfaceInputs :
     /\ inp.substrate_transformation = 1
     /\ inp.film_transformation = 1
     /\ \A s \in Range(inp.substrate.sites) : s.sp = SubstrateOnly
     /\ \A s \in Range(inp.film.sites) : s.sp = FilmOnly}

\* no Miller-index search is under way
NoIteration == [planes |-> [by |-> <<1, 2, 3>>, dir |-> 1],
                images |-> [by |-> <<1, 2, 3>>, dir |-> 1]]

\* grid_density_x of a scan; the grid has one row (grid_density_y = 1)
GridDensity == 5

\* the processes of a pool, cpu_count(), are up to MaxWorkers
MaxWorkers == 2

\* the calls of a worker function that raise in one scan
MaxFailures == 1

\* a worker process that holds no chunk of tasks
IdleWorker == [tasks |-> <<>>, at |-> 0, busy |-> FALSE, structure |-> <<>>,
               values |-> <<>>]

\* the place of a result that has not come
NoValue == <<>>

NoResults == [i \in 1..GridDensity |-> NoValue]

\* no scan has been called
NoScan ==
  /\ scan = [stage |-> "idle", kind |-> "none", pools |-> <<>>,
             shift |-> FALSE, error |-> "nothing",
             nworkers |-> 0, interface |-> <<>>,
             film_inds |-> {}, next |-> 0, failed |-> FALSE, raised |-> 0,
             attempts |-> [i \in 1..GridDensity |-> 0],
             atoms_list |-> NoResults,
             before |-> [sites |-> <<>>, film_part |-> <<>>,
                         interface_height |-> RZero,
                         interfacial_distance |-> RZero]]
  /\ workers = [w \in 1..MaxWorkers |-> IdleWorker]
  /\ results = NoResults

NoAtoms == [cell |-> [a |-> ROne, c |-> ROne], symbols |-> <<>>,
            positions |-> <<>>]

UnsetDirections ==
  [stage |-> "unset", value |-> <<>>, p |-> 0, q |-> 0, i |-> 0]

\* run_surface_matching has not been called
IdleMatching ==
  [stage |-> "idle", error |-> "nothing",
   layer_inds |-> <<>>, heights |-> <<>>,
   bot_film_ind |-> 0, top_sub_ind |-> 0,
   second_film_ind |-> 0, second_sub_ind |-> 0,
   si |-> <<>>, fi |-> <<>>, si2 |-> <<>>, fi2 |-> <<>>,
   mus_orig |-> <<>>, mus_sub |-> <<>>, mus_film |-> <<>>,
   clustered |-> <<>>, all_centers_orig |-> <<>>,
   PES_values_orig |-> <<>>, PES_values_sub |-> <<>>,
   PES_values_film |-> <<>>, min_center_orig |-> <<>>]

NoMatching == matching = IdleMatching

\* no crystallographic directions are asked for
NoDirections ==
  /\ miller_index = <<0, 0, 0>>
  /\ bulk_cell = <<>>
  /\ crystallographic_directions = UnsetDirections

\* no Surface is at hand
NoSurface ==
  /\ slab_pmg = NoStructure
  /\ primitive_slab_pmg = NoStructure
  /\ surface_raised = "nothing"
  /\ removals = 0
  /\ slab_ase = NoAtoms
  /\ primitive_slab_ase = NoAtoms
  /\ termination = {}

NoSearch ==
  /\ bulk = [metric |-> <<>>, symmops |-> {}]
  /\ max_substrate_index = 0
  /\ iteration = NoIteration
  /\ substrate_inds = <<>>
  /\ film_inds = <<>>
  /\ searched = "no"
  /\ raised = "nothing"

InterfaceStart(candidates) ==
  /\ NoSearch
  /\ NoSurface
  /\ NoScan
  /\ NoDirections
  /\ NoMatching
  /\ phase = "Unbuilt"
  /\ inputs \in {inp \in candidates : ValidInputs(inp)}
  /\ substrate_supercell = NoStructure
  /\ film_supercell = NoStructure
  /\ interface = NoStructure
  /\ sub_part = <<>>
  /\ film_part = <<>>
  /\ interface_height = RZero
  /\ interfacial_distance = RZero
  /\ returned = NoReturned
  /\ last = NoCall
  /\ ncalls = 0

\* the supercells, strained and oriented, go to _stack_interface
Construct(sub_sc, film_sc, inp, orientation) ==
  StackInterface(StrainAndOrient(sub_sc, GetInterfaceSlVecs(sub_sc)),
                 StrainAndOrient(film_sc, GetInterfaceSlVecs(sub_sc)),
                 inp, orientation)

Built(built, orientation) ==
  /\ interface' = built.interface
  /\ sub_part' = built.sub_part
  /\ film_part' = built.film_part
  /\ interface_height' = built.interface_height
  /\ last' = [NoCall EXCEPT !.op = "__init__", !.flipped = built.flipped,
                            !.orientation = orientation]

\* Interface.__init__
InterfaceInit ==
  /\ phase = "Unbuilt"
  /\ substrate_supercell' =
       PrepareSlab(inputs.substrate, inputs.substrate_transformation)
  /\ film_supercell' = PrepareSlab(inputs.film, inputs.film_transformation)
  /\ \E orientation \in Orientations :
       Built(Construct(substrate_supercell', film_supercell', inputs,
                       orientation),
             orientation)
  /\ interfacial_distance' = inputs.interfacial_distance
  /\ phase' = "Finalized"
  /\ UNCHANGED <<inputs, returned, ncalls>>
  /\ UNCHANGED beside_interface

--------------------------------------------------------------------------
(* Interface: operations on the finalized interface *)

CartShifts == {[x |-> RInt(1), z |-> RZero], [x |-> RZero, z |-> RInt(1)],
               [x |-> RZero, z |-> RInt(-1)]}
FracShifts == {[x |-> Rat(1, 2), z |-> RZero], [x |-> RZero, z |-> Rat(1, 4)],
               [x |-> RZero, z |-> Rat(-1, 4)], [x |-> RZero, z |-> Rat(-3, 4)]}

\* film_ind of shift_film
FilmInd(sites, height) ==
  {i \in DOMAIN sites : RLt(height, sites[i].z) /\ RLt(sites[i].z, TopCut)}

\* a variant that rejects negative distances only
ShiftBelowZero(shift, distance) == RLt(RAdd(shift.z, distance), RZero)

\* the guard of shift_film's cartesian branch
ShiftTooClose(shift, distance) == RLt(RAdd(shift.z, distance), MinDistance)

\* a variant that adds the magnitude of the z-component
DistancePlusMagnitude(distance, shift) ==
  RAdd(distance, [n |-> Abs(shift.z.n), d |-> shift.z.d])

\* self.interfacial_distance += shift[-1]
DistanceAfterShift(distance, shift) == RAdd(distance, shift.z)

\* self.interface_height += frac_shift[-1] / 2
HeightAfterShift(height, frac_shift) == RAdd(height, RMul(frac_shift.z, RHalf))

\* copy.copy(self.interface): a new Structure object holding the same list
\* of the same site objects
CopyCopy(struc) == [live |-> TRUE, sites |-> struc.sites]

\* Interface.shift_film(shift, fractional, inplace)
\* the body of shift_film
ShiftFilmEffect(shift, fractional, inplace) ==
  /\ LET call == [op |-> "shift_film", ok |-> TRUE, fractional |-> fractional,
                  inplace |-> inplace, shift |-> shift, frac_shift |-> NoVector,
                  film_ind |-> {}, distance_before |-> interfacial_distance]
     IN
     IF ~fractional /\ ShiftTooClose(shift, interfacial_distance)
     THEN \* raise ValueError
          /\ last' = [call EXCEPT !.ok = FALSE]
          /\ UNCHANGED <<interface, film_part, interface_height,
                         interfacial_distance, returned>>
     ELSE LET frac_shift == IF fractional THEN shift
                            ELSE GetFractionalCoords(interface.lattice, shift)
              film_ind == FilmInd(interface.sites, interface_height)
              moved == TranslateSites(interface.sites, film_ind, frac_shift)
          IN  /\ last' = [call EXCEPT !.frac_shift = frac_shift,
                                      !.film_ind = film_ind]
              /\ IF inplace
                 THEN /\ interface' = [interface EXCEPT !.sites = moved]
                      /\ film_part' = TranslateSites(film_part, DOMAIN film_part,
                                                     frac_shift)
                      /\ interface_height' =
                           HeightAfterShift(interface_height, frac_shift)
                      /\ interfacial_distance' =
                           DistanceAfterShift(interfacial_distance, shift)
                      /\ returned' = IF returned.live
                                     THEN [returned EXCEPT !.sites = moved]
                                     ELSE returned
                 ELSE \* the sites of the copy are the sites of self.interface
                      /\ returned' = [CopyCopy(interface) EXCEPT !.sites = moved]
                      /\ interface' =
                           IF CopyCopy(interface).live
                           THEN [interface EXCEPT !.sites = moved]
                           ELSE interface
                      /\ UNCHANGED <<film_part, interface_height,
                                     interfacial_distance>>
  /\ UNCHANGED <<phase, inputs, substrate_supercell, film_supercell, sub_part>>

ShiftFilm(shift, fractional, inplace) ==
  /\ phase = "Finalized"
  /\ ncalls < MaxCalls
  /\ ncalls' = ncalls + 1
  /\ ShiftFilmEffect(shift, fractional, inplace)
  /\ UNCHANGED beside_interface

\* scaling_matrix arguments of create_ga_candidate: [1,1,1], [2,1,1], [1,1,2]
Scalings == {<<1, 1>>, <<2, 1>>, <<1, 2>>}

\* create_ga_candidate: interface = self.interface, and
\* interface.make_supercell(scaling_matrix) when the scaling is not the
\* identity; the candidate it goes on to build is a new structure
GaSupercell(struc, scaling) ==
  IF scaling[1] + 1 + scaling[2] > 3
  THEN MakeSupercell(struc, scaling[1], scaling[2])
  ELSE struc

CreateGaCandidate(scaling) ==
  /\ phase = "Finalized"
  /\ ncalls < MaxCalls
  /\ ncalls' = ncalls + 1
  /\ Len(interface.sites) * scaling[1] * scaling[2] <= MaxSites
  /\ interface' = GaSupercell(interface, scaling)
  /\ returned' = IF interface' = interface THEN returned
                 ELSE [returned EXCEPT !.live = FALSE]
  /\ last' = [NoCall EXCEPT !.op = "create_ga_candidate"]
  /\ UNCHANGED <<phase, inputs, substrate_supercell, film_supercell, sub_part,
                 film_part, interface_height, interfacial_distance>>
  /\ UNCHANGED beside_interface

\* the operations that work on deep copies or only read the interface:
\* run_surface_matching and its variants with shift=False, get_ewald_energy,
\* get_dispersion, plot_interface, write_file
ReadOps == {"run_surface_matching", "get_ewald_energy"}

ReadOnly(op) ==
  /\ phase = "Finalized"
  /\ ncalls < MaxCalls
  /\ ncalls' = ncalls + 1
  /\ last' = [NoCall EXCEPT !.op = op]
  /\ UNCHANGED <<phase, inputs, substrate_supercell, film_supercell, interface,
                 sub_part, film_part, interface_height, interfacial_distance,
                 returned>>
  /\ UNCHANGED beside_interface

\* the caller translates the structure shift_film(inplace=False) returned
CallerVector == [x |-> Rat(1, 2), z |-> RZero]

ModifyReturned ==
  /\ phase = "Finalized"
  /\ ncalls < MaxCalls
  /\ ncalls' = ncalls + 1
  /\ returned.sites # <<>>
  /\ LET moved == TranslateSites(returned.sites, DOMAIN returned.sites,
                                 CallerVector)
     IN  /\ returned' = [returned EXCEPT !.sites = moved]
         /\ interface' = IF returned.live
                         THEN [interface EXCEPT !.sites = moved]
                         ELSE interface
  /\ last' = [NoCall EXCEPT !.op = "modify_returned"]
  /\ UNCHANGED <<phase, inputs, substrate_supercell, film_supercell, sub_part,
                 film_part, interface_height, interfacial_distance>>
  /\ UNCHANGED beside_interface

INext ==
  \/ InterfaceInit
  \/ \E fractional \in BOOLEAN, inplace \in BOOLEAN :
       \E shift \in (IF fractional THEN FracShifts ELSE CartShifts) :
         ShiftFilm(shift, fractional, inplace)
  \/ \E scaling \in Scalings : CreateGaCandidate(scaling)
  \/ \E op \in ReadOps : ReadOnly(op)
  \/ ModifyReturned

--------------------------------------------------------------------------
(* Interface: worker-pool scans *)

\* run_surface_matching_ewald, run_surface_matching_pmg_zbl and
\* run_surface_matching_ionic map worker functions over the grid of shifts
\* with Pool(cpu_count()).starmap.  A pool is a set of processes: the
\* arguments of the tasks, and the Interface the worker function is bound
\* to, reach a worker pickled, chunk by chunk, so that the tasks of one
\* chunk work one after the other on one copy and no two processes share an
\* object.  Coordinates are exact rationals.
ScanKinds == {"run_surface_matching_ewald", "run_surface_matching_pmg_zbl",
              "run_surface_matching_ionic"}

\* the worker functions of the pools of a scan, pool after pool
Pools(kind) ==
  IF kind = "run_surface_matching_ewald" THEN <<"_ewald_sum">>
  ELSE IF kind = "run_surface_matching_pmg_zbl"
       THEN <<"_get_shifted_atoms", "_ewald_sum">>
       ELSE <<"_get_shifted_atoms">>

\* the tasks of a pool: one for each shift of the grid
NumTasks == GridDensity

\* x_grid = np.linspace(0, 1, grid_density_x)
XGrid == [k \in 1..GridDensity |-> Rat(k - 1, GridDensity - 1)]

\* frac_shifts = np.c_[X.ravel(), Y.ravel(), 0 * Y.ravel()]; the component
\* along the second in-plane axis is not modelled
FracShiftsOfGrid == [i \in 1..NumTasks |-> [x |-> XGrid[i], z |-> RZero]]

\* starmap cuts the tasks into chunks:
\* chunksize, extra = divmod(len(iterable), len(pool) * 4), one more if extra
Chunksize(nworkers) == (NumTasks + 4 * nworkers - 1) \div (4 * nworkers)

NumChunks(nworkers) ==
  (NumTasks + Chunksize(nworkers) - 1) \div Chunksize(nworkers)

\* the tasks of the k-th chunk, in their order
ChunkTasks(k, nworkers) ==
  LET first == (k - 1) * Chunksize(nworkers)
      size == IF first + Chunksize(nworkers) > NumTasks THEN NumTasks - first
              ELSE Chunksize(nworkers)
  IN  [j \in 1..size |-> first + j]

\* what a total energy or a list of atoms is computed from: the species and
\* the positions of the sites in the periodic cell (atoms.wrap())
Configuration(sites) ==
  [i \in DOMAIN sites |->
     [sp |-> sites[i].sp, x |-> RMod1(sites[i].x), z |-> RMod1(sites[i].z)]]

\* frac_coords[shift_inds] += shift, on the array frac_coords returns
AddShift(sites, shift_inds, shift) ==
  [i \in DOMAIN sites |->
     IF i \in shift_inds
     THEN [sp |-> sites[i].sp, x |-> RAdd(sites[i].x, shift.x),
           z |-> RAdd(sites[i].z, shift.z)]
     ELSE sites[i]]

\* _get_shifted_atoms(shift_inds, shift), on the Interface of the worker
GetShiftedAtoms(sites, shift_inds, shift) ==
  Configuration(AddShift(sites, shift_inds, shift))

\* a variant of the second translate_sites of _ewald_sum that moves nothing
LeftShifted(structure, inds, shift) == structure

\* _ewald_sum: structure.translate_sites(indices=film_inds, vector=-shift)
ShiftedBack(structure, inds, shift) ==
  TranslateSites(structure, inds,
                 [x |-> RNeg(shift.x), z |-> RNeg(shift.z)])

\* a variant of starmap that hands out what it has, whatever was raised
NeverRaises(failed) == FALSE

\* starmap raises in the parent, once every chunk is done, the exception a
\* worker function raised
StarmapRaises(failed) == failed

\* a scan is called, once on an Interface: the deep copy of
\* self.interface, film_inds, the pool
ScanStart(kind, nworkers) ==
  /\ phase = "Finalized"
  /\ scan.stage = "idle"
  /\ ncalls < MaxCalls
  /\ ncalls' = ncalls + 1
  /\ scan' = [stage |-> "pool", kind |-> kind, pools |-> Pools(kind),
              shift |-> FALSE, error |-> "nothing", nworkers |-> nworkers,
              interface |-> interface.sites,
              film_inds |-> SitesAbove(interface.sites, interface_height),
              next |-> 1, failed |-> FALSE, raised |-> 0,
              attempts |-> [i \in 1..NumTasks |-> 0],
              atoms_list |-> NoResults,
              before |-> [sites |-> interface.sites, film_part |-> film_part,
                          interface_height |-> interface_height,
                          interfacial_distance |-> interfacial_distance]]
  /\ workers' = [w \in 1..MaxWorkers |-> IdleWorker]
  /\ results' = NoResults
  /\ last' = [NoCall EXCEPT !.op = kind]
  /\ UNCHANGED <<phase, inputs, substrate_supercell, film_supercell, interface,
                 sub_part, film_part, interface_height, interfacial_distance,
                 returned>>
  /\ UNCHANGED beside_scan

\* a worker process takes the next chunk and unpickles its arguments
TakeChunk(w) ==
  /\ scan.stage = "pool"
  /\ w <= scan.nworkers
  /\ workers[w].at = 0
  /\ scan.next <= NumChunks(scan.nworkers)
  /\ workers' = [workers EXCEPT ![w] =
                   [tasks |-> ChunkTasks(scan.next, scan.nworkers), at |-> 1,
                    busy |-> FALSE, structure |-> scan.interface,
                    values |-> <<>>]]
  /\ scan' = [scan EXCEPT !.next = scan.next + 1]
  /\ UNCHANGED <<results, ivars, beside_scan>>

\* the task a worker is at
TaskOf(worker) == worker.tasks[worker.at]

\* the worker function is entered: _ewald_sum translates the film sites of
\* its structure; _get_shifted_atoms reads self.interface.frac_coords
BeginTask(w) ==
  /\ scan.stage = "pool"
  /\ workers[w].at > 0
  /\ ~workers[w].busy
  /\ workers' = [workers EXCEPT
       ![w].busy = TRUE,
       ![w].structure =
         IF Head(scan.pools) = "_ewald_sum"
         THEN TranslateSites(workers[w].structure, scan.film_inds,
                             FracShiftsOfGrid[TaskOf(workers[w])])
         ELSE workers[w].structure]
  /\ scan' = [scan EXCEPT !.attempts[TaskOf(workers[w])] = @ + 1]
  /\ UNCHANGED <<results, ivars, beside_scan>>

\* the value the worker function returns
ValueOf(worker) ==
  IF Head(scan.pools) = "_ewald_sum"
  THEN Configuration(worker.structure)
  ELSE GetShiftedAtoms(worker.structure, scan.film_inds,
                       FracShiftsOfGrid[TaskOf(worker)])

\* the structure of the worker when the worker function has returned
StructureAfter(worker) ==
  IF Head(scan.pools) = "_ewald_sum"
  THEN ShiftedBack(worker.structure, scan.film_inds,
                   FracShiftsOfGrid[TaskOf(worker)])
  ELSE worker.structure

\* the results of a chunk, put at the places of its tasks
WithChunk(tasks, values) ==
  [i \in 1..NumTasks |->
     IF \E j \in DOMAIN tasks : tasks[j] = i
     THEN values[CHOOSE j \in DOMAIN tasks : tasks[j] = i]
     ELSE results[i]]

\* the worker function returns; after the last task of the chunk the values
\* of the chunk go to the parent
EndTask(w) ==
  /\ scan.stage = "pool"
  /\ workers[w].busy
  /\ LET values == Append(workers[w].values, ValueOf(workers[w]))
     IN  IF workers[w].at = Len(workers[w].tasks)
         THEN /\ results' = WithChunk(workers[w].tasks, values)
              /\ workers' = [workers EXCEPT ![w] = IdleWorker]
         ELSE /\ results' = results
              /\ workers' = [workers EXCEPT
                   ![w].busy = FALSE,
                   ![w].at = @ + 1,
                   ![w].values = values,
                   ![w].structure = StructureAfter(workers[w])]
  /\ UNCHANGED <<scan, ivars, beside_scan>>

\* the worker function raises: the chunk ends there and the exception goes
\* to the parent
RaiseTask(w) ==
  /\ scan.stage = "pool"
  /\ workers[w].busy
  /\ scan.raised < MaxFailures
  /\ workers' = [workers EXCEPT ![w] = IdleWorker]
  /\ scan' = [scan EXCEPT !.failed = TRUE, !.raised = @ + 1]
  /\ UNCHANGED <<results, ivars, beside_scan>>

\* every chunk of the pool is done
PoolDone ==
  /\ scan.stage = "pool"
  /\ scan.next > NumChunks(scan.nworkers)
  /\ \A w \in 1..MaxWorkers : workers[w].at = 0

\* starmap raises and the scan with it
ScanFails ==
  /\ PoolDone
  /\ StarmapRaises(scan.failed)
  /\ scan' = [scan EXCEPT !.stage = "failed", !.error = "worker"]
  /\ results' = NoResults
  /\ UNCHANGED <<workers, ivars, beside_scan>>

\* run_surface_matching_pmg_zbl: atoms_list is there, the pool of
\* _ewald_sum comes next
NextPool ==
  /\ PoolDone
  /\ ~StarmapRaises(scan.failed)
  /\ Len(scan.pools) > 1
  /\ scan' = [scan EXCEPT !.pools = Tail(scan.pools), !.next = 1,
                          !.atoms_list = results,
                          !.attempts = [i \in 1..NumTasks |-> 0]]
  /\ results' = NoResults
  /\ UNCHANGED <<workers, ivars, beside_scan>>

\* the shift of the optimum: a point of the grid, in cartesian coordinates
OptimumShift(k) == [x |-> RMul(XGrid[k], interface.lattice.a), z |-> RZero]

\* the last pool is done: the scan goes on to the optimum and, if shift
\* (the argument is read here for the first time),
\* self.shift_film(shift=[x_opt[0], y_opt[0], 0], fractional=False,
\* inplace=True)
ScanReturns(shift) ==
  /\ PoolDone
  /\ ~StarmapRaises(scan.failed)
  /\ Len(scan.pools) = 1
  /\ IF shift
     THEN /\ \E k \in 1..GridDensity :
               ShiftFilmEffect(OptimumShift(k), FALSE, TRUE)
          /\ scan' = [scan EXCEPT
               !.shift = TRUE,
               !.stage = IF last'.ok THEN "returned" ELSE "failed",
               !.error = IF last'.ok THEN "nothing" ELSE "ValueError"]
          /\ UNCHANGED ncalls
     ELSE /\ scan' = [scan EXCEPT !.stage = "returned"]
          /\ UNCHANGED ivars
  /\ UNCHANGED <<workers, results, beside_scan>>

\* IonicSurfaceMatcher(interface): __init__ goes to _get_ewald_parameters,
\* which reads self.interface.structure_volume; the Interface of
\* surfaces.py has no such attribute, so the construction raises and
\* IonicSurfaceMatcher.run_surface_matching is never reached
MatcherInit ==
  /\ phase = "Finalized"
  /\ scan.stage = "idle"
  /\ scan' = [scan EXCEPT !.stage = "failed",
                          !.kind = "IonicSurfaceMatcher",
                          !.error = "AttributeError"]
  /\ UNCHANGED <<workers, results, ivars, beside_scan>>

\* the inputs the scans are explored from: a substrate of one layer and a
\* film of two, centered in a cell with vacuum
ScanInputs ==
  {inp \in PlainInputs :
     /\ Len(inp.substrate.sites) = 1
     /\ Len(inp.film.sites) = 2
     /\ inp.vacuum = RInt(BigVacuum)
     /\ inp.center}

ScanNext ==
  \/ InterfaceInit
  \/ \E kind \in ScanKinds, nworkers \in 1..MaxWorkers :
       ScanStart(kind, nworkers)
  \/ \E w \in 1..MaxWorkers : TakeChunk(w)
  \/ \E w \in 1..MaxWorkers : BeginTask(w)
  \/ \E w \in 1..MaxWorkers : EndTask(w)
  \/ \E w \in 1..MaxWorkers : RaiseTask(w)
  \/ ScanFails
  \/ NextPool
  \/ \E shift \in BOOLEAN : ScanReturns(shift)
  \/ MatcherInit

--------------------------------------------------------------------------
(* MillerSearch: the enumeration of the unique Miller indices *)

\* max_index takes the values 1 .. MaxIndex
MaxIndex == 1

Sign(n) == IF n > 0 THEN 1 ELSE IF n < 0 THEN -1 ELSE 0

\* Python's a % b: the result has the sign of the divisor
PyMod(a, b) == IF b > 0 THEN a % b ELSE -((-a) % (-b))

\* int(a / g): the quotient truncated towards zero
TruncDiv(a, g) == IF a >= 0 THEN a \div g ELSE -((-a) \div g)

\* _float_gcd on integral values: the tolerance rtol * t + atol lies below 1,
\* so the loop runs until b is 0
RECURSIVE FloatGcd(_, _)
FloatGcd(a, b) == IF b = 0 THEN a ELSE FloatGcd(b, PyMod(a, b))

\* tuple((plane / gcd).astype(int)) with gcd = np.abs(reduce(_float_gcd, plane))
DivideBy(plane, gcd) ==
  <<TruncDiv(plane[1], gcd), TruncDiv(plane[2], gcd), TruncDiv(plane[3], gcd)>>

ReducePlane(plane) ==
  DivideBy(plane, Abs(FloatGcd(FloatGcd(plane[1], plane[2]), plane[3])))

MatVec(M, v) ==
  <<M[1][1] * v[1] + M[1][2] * v[2] + M[1][3] * v[3],
    M[2][1] * v[1] + M[2][2] * v[2] + M[2][3] * v[3],
    M[3][1] * v[1] + M[3][2] * v[2] + M[3][3] * v[3]>>

Column(M, j) == <<M[1][j], M[2][j], M[3][j]>>

MatMul(A, B) ==
  <<<<MatVec(A, Column(B, 1))[1], MatVec(A, Column(B, 2))[1],
      MatVec(A, Column(B, 3))[1]>>,
    <<MatVec(A, Column(B, 1))[2], MatVec(A, Column(B, 2))[2],
      MatVec(A, Column(B, 3))[2]>>,
    <<MatVec(A, Column(B, 1))[3], MatVec(A, Column(B, 2))[3],
      MatVec(A, Column(B, 3))[3]>>>>

Det(M) ==
  M[1][1] * (M[2][2] * M[3][3] - M[2][3] * M[3][2])
  - M[1][2] * (M[2][1] * M[3][3] - M[2][3] * M[3][1])
  + M[1][3] * (M[2][1] * M[3][2] - M[2][2] * M[3][1])

\* the adjugate: Det(M) times the inverse
Adj(M) ==
  <<<<M[2][2] * M[3][3] - M[2][3] * M[3][2],
      M[1][3] * M[3][2] - M[1][2] * M[3][3],
      M[1][2] * M[2][3] - M[1][3] * M[2][2]>>,
    <<M[2][3] * M[3][1] - M[2][1] * M[3][3],
      M[1][1] * M[3][3] - M[1][3] * M[3][1],
      M[1][3] * M[2][1] - M[1][1] * M[2][3]>>,
    <<M[2][1] * M[3][2] - M[2][2] * M[3][1],
      M[1][2] * M[3][1] - M[1][1] * M[3][2],
      M[1][1] * M[2][2] - M[1][2] * M[2][1]>>>>

Identity3 == <<<<1, 0, 0>>, <<0, 1, 0>>, <<0, 0, 1>>>>
Inversion == <<<<-1, 0, 0>>, <<0, -1, 0>>, <<0, 0, -1>>>>
TwoFoldB == <<<<-1, 0, 0>>, <<0, 1, 0>>, <<0, 0, -1>>>>
TwoFoldC == <<<<-1, 0, 0>>, <<0, -1, 0>>, <<0, 0, 1>>>>
FourFoldC == <<<<0, -1, 0>>, <<1, 0, 0>>, <<0, 0, 1>>>>
ThreeFoldDiagonal == <<<<0, 0, 1>>, <<1, 0, 0>>, <<0, 1, 0>>>>
SixFoldC == <<<<1, -1, 0>>, <<1, 0, 0>>, <<0, 0, 1>>>>

\* the group the generators span
RECURSIVE Closure(_)
Closure(ops) ==
  IF \A A \in ops, B \in ops : MatMul(A, B) \in ops THEN ops
  ELSE Closure(ops \cup {MatMul(A, B) : A \in ops, B \in ops})

\* bulk structures as _get_unique_miller_indices sees them: the metric
\* tensor of struc.lattice (the products of its vectors) and the rotations
\* of get_point_group_operations(cartesian=False)
Triclinic ==
  [metric |-> <<<<4, 1, 1>>, <<1, 5, 1>>, <<1, 1, 6>>>>,
   symmops |-> Closure({Identity3, Inversion})]
Monoclinic ==
  [metric |-> <<<<4, 0, 1>>, <<0, 5, 0>>, <<1, 0, 6>>>>,
   symmops |-> Closure({Identity3, TwoFoldB})]
Orthorhombic ==
  [metric |-> <<<<4, 0, 0>>, <<0, 5, 0>>, <<0, 0, 6>>>>,
   symmops |-> Closure({TwoFoldB, TwoFoldC, Inversion})]
Tetragonal ==
  [metric |-> <<<<4, 0, 0>>, <<0, 4, 0>>, <<0, 0, 6>>>>,
   symmops |-> Closure({FourFoldC, Inversion})]
Hexagonal ==
  [metric |-> <<<<2, -1, 0>>, <<-1, 2, 0>>, <<0, 0, 3>>>>,
   symmops |-> Closure({SixFoldC, Inversion})]
Cubic ==
  [metric |-> <<<<4, 0, 0>>, <<0, 4, 0>>, <<0, 0, 4>>>>,
   symmops |-> Closure({FourFoldC, ThreeFoldDiagonal, Inversion})]

\* the four-fold rotoinversion about c
FourFoldInversionC == <<<<0, 1, 0>>, <<-1, 0, 0>>, <<0, 0, -1>>>>

\* the cubic point groups below m-3m: 23, m-3, 432 and -43m
Cubic23 ==
  [metric |-> <<<<4, 0, 0>>, <<0, 4, 0>>, <<0, 0, 4>>>>,
   symmops |-> Closure({TwoFoldC, ThreeFoldDiagonal})]
CubicM3 ==
  [metric |-> <<<<4, 0, 0>>, <<0, 4, 0>>, <<0, 0, 4>>>>,
   symmops |-> Closure({TwoFoldC, ThreeFoldDiagonal, Inversion})]
Cubic432 ==
  [metric |-> <<<<4, 0, 0>>, <<0, 4, 0>>, <<0, 0, 4>>>>,
   symmops |-> Closure({FourFoldC, ThreeFoldDiagonal})]
Cubic43m ==
  [metric |-> <<<<4, 0, 0>>, <<0, 4, 0>>, <<0, 0, 4>>>>,
   symmops |-> Closure({FourFoldInversionC, ThreeFoldDiagonal})]

CubicStructures == {Cubic, Cubic23, CubicM3, Cubic432, Cubic43m}

BulkStructures ==
  {Triclinic, Monoclinic, Orthorhombic, Tetragonal, Hexagonal}
    \cup CubicStructures

\* the relabelings of the three axes
AxisRelabelings == {perm \in [1..3 -> 1..3] : {perm[i] : i \in 1..3} = 1..3}

\* a matrix over the relabeled axes
Permuted(M, perm) ==
  [i \in 1..3 |-> [j \in 1..3 |-> M[perm[i]][perm[j]]]]

\* the same structure given with its axes relabeled
Relabel(struc, perm) ==
  [metric |-> Permuted(struc.metric, perm),
   symmops |-> {Permuted(symmop, perm) : symmop \in struc.symmops}]

\* lines 168-178: the plane's normal in fractional coordinates of the
\* lattice (metric^-1 . plane), the symmetry operation applied to it, the
\* result back in reciprocal coordinates (metric . vector), then reduced
ScaledPointOut(metric, symmop, plane) ==
  MatVec(metric, MatVec(symmop, MatVec(Adj(metric), plane)))

PointOut(metric, symmop, plane) ==
  ReducePlane(DivideBy(ScaledPointOut(metric, symmop, plane), Det(metric)))

\* set(list(product(range(-max_index, max_index + 1), repeat=3)))
Product(max_index) ==
  {<<h, k, l>> : h \in -max_index..max_index, k \in -max_index..max_index,
                 l \in -max_index..max_index}

\* planes, without (0, 0, 0)
Planes(max_index) == Product(max_index) \ {<<0, 0, 0>>}

ReducedPlanes(max_index) == {ReducePlane(plane) : plane \in Planes(max_index)}

\* the orders in which a set of planes may be iterated: by the coordinates
\* taken in some sequence, ascending or descending
IterationOrders ==
  {[by |-> <<1, 2, 3>>, dir |-> 1], [by |-> <<1, 2, 3>>, dir |-> -1],
   [by |-> <<3, 2, 1>>, dir |-> 1], [by |-> <<2, 3, 1>>, dir |-> -1]}

\* the place of coordinate i in the sequence the order goes by
Place(order, i) == CHOOSE j \in 1..3 : order.by[j] = i

\* the digit at place j of n written with three digits to the base width
Digit(n, j, width) ==
  CASE j = 1 -> n \div (width * width)
    [] j = 2 -> (n \div width) % width
    [] OTHER -> n % width

\* the n-th plane of the box [-reach, reach]^3 in the order of iteration
NthOfBox(n, order, reach) ==
  <<order.dir * (Digit(n - 1, Place(order, 1), 2 * reach + 1) - reach),
    order.dir * (Digit(n - 1, Place(order, 2), 2 * reach + 1) - reach),
    order.dir * (Digit(n - 1, Place(order, 3), 2 * reach + 1) - reach)>>

\* the number n for which the plane is the n-th of the box
PlaneTicket(p, order, reach) ==
  1 + ((order.dir * p[order.by[1]] + reach) * (2 * reach + 1)
       + (order.dir * p[order.by[2]] + reach)) * (2 * reach + 1)
    + (order.dir * p[order.by[3]] + reach)

\* the largest coordinate, in magnitude, of the planes of a set
Reach(set) == Largest({Abs(p[i]) : p \in set, i \in 1..3})

\* numbers in ascending order
Ascending(numbers) ==
  SelectSeq([c \in 1..Largest(numbers) |-> c], LAMBDA c : c \in numbers)

PlanesOf(tickets, order, reach) ==
  [n \in DOMAIN tickets |-> NthOfBox(tickets[n], order, reach)]

IterateWithin(set, order, reach) ==
  PlanesOf(Ascending({PlaneTicket(p, order, reach) : p \in set}), order, reach)

\* the elements of a set in the order of iteration
Iterate(set, order) ==
  IF set = {} THEN <<>> ELSE IterateWithin(set, order, Reach(set))

\* a variant that applies no operation but the identity
OwnImage(struc, plane) == {plane}

\* planes_dict[plane], as the set the code turns it into
Images(struc, plane) ==
  {PointOut(struc.metric, symmop, plane) : symmop \in struc.symmops}

\* a variant that deletes no key
DeletedNone(images, plane, keys) == {}

\* the keys that del planes_dict[point_out] removes while plane is processed
Deleted(images, plane, keys) == (images \ {plane}) \cap keys

\* lines 167-182: the keys of planes_dict after the loop over
\* reduced_planes.  A key that is left has had its turn in the loop, so
\* planes_dict holds for it the image under every operation.
RECURSIVE SymmetryLoop(_, _, _)
SymmetryLoop(todo, keys, struc) ==
  IF todo = <<>> THEN keys
  ELSE IF Head(todo) \in keys
       THEN SymmetryLoop(Tail(todo),
                         keys \ Deleted(Images(struc, Head(todo)), Head(todo),
                                        keys),
                         struc)
       ELSE SymmetryLoop(Tail(todo), keys, struc)

SignSum(plane) == Sign(plane[1]) + Sign(plane[2]) + Sign(plane[3])

\* diff = np.abs(np.sum(np.sign(equivalent_planes), axis=1))
Diff(plane) == Abs(SignSum(plane))

AbsFirst(plane) == Abs(plane[1])
AbsSecond(plane) == Abs(plane[2])

\* the number of components of a plane that are not negative
NonNegatives(plane) == Cardinality({i \in 1..3 : plane[i] >= 0})

\* a variant that keeps the rows with the most non-negative components
MostNonNegative(rows) ==
  SelectSeq(rows,
            LAMBDA r : \A i \in DOMAIN rows :
                         NonNegatives(rows[i]) <= NonNegatives(r))

\* equivalent_planes[diff == np.max(diff)], the rows kept in their order
LikeSigns(rows) ==
  SelectSeq(rows, LAMBDA r : \A i \in DOMAIN rows : Diff(rows[i]) <= Diff(r))

\* like_signs[np.abs(like_signs)[:, 0] == np.max(np.abs(like_signs)[:, 0])]
FirstMax(rows) ==
  SelectSeq(rows,
            LAMBDA r : \A i \in DOMAIN rows : AbsFirst(rows[i]) <= AbsFirst(r))

\* first_max[np.abs(first_max)[:, 1] == np.max(np.abs(first_max)[:, 1])]
SecondMax(rows) ==
  SelectSeq(rows,
            LAMBDA r : \A i \in DOMAIN rows : AbsSecond(rows[i]) <= AbsSecond(r))

\* np.argmax(np.sign(second_max).sum(axis=1)): the first index of the maximum
ArgMaxSignSum(rows) ==
  CHOOSE i \in DOMAIN rows :
    /\ \A j \in DOMAIN rows : SignSum(rows[j]) <= SignSum(rows[i])
    /\ \A j \in 1..(i - 1) : SignSum(rows[j]) < SignSum(rows[i])

\* lines 200-211
PickSecondMax(second_max) ==
  IF Len(second_max) = 1 THEN second_max[1]
  ELSE second_max[ArgMaxSignSum(second_max)]

\* lines 193-211
PickFirstMax(first_max) ==
  IF Len(first_max) = 1 THEN first_max[1]
  ELSE PickSecondMax(SecondMax(first_max))

\* lines 189-211
PickLikeSigns(like_signs) ==
  IF Len(like_signs) = 1 THEN like_signs[1]
  ELSE PickFirstMax(FirstMax(like_signs))

\* lines 187-211: the plane that stands for a class, equivalent_planes being
\* the rows of np.array(list(set(planes_dict[k])))
Representative(equivalent_planes) ==
  PickLikeSigns(LikeSigns(equivalent_planes))

NormSquared(plane) ==
  plane[1] * plane[1] + plane[2] * plane[2] + plane[3] * plane[3]

\* a variant of the key that orders the rows by the norm alone
NormKey(row) == NormSquared(row) * 7

\* a number that orders the rows as the key
\* (np.linalg.norm(x), -np.sign(x).sum()) does: first by the norm, then by
\* the sum of the signs, the greater sum first
SortKey(row) == NormSquared(row) * 7 + (3 - SignSum(row))

\* a stable sort takes rows of one key in the order they come in: the key
\* of the row at index i, then i
Ticket(rows, i) == SortKey(rows[i]) * (Len(rows) + 1) + i

Tickets(rows) == {Ticket(rows, i) : i \in DOMAIN rows}

RowsOf(rows, tickets) ==
  [n \in DOMAIN tickets |-> rows[tickets[n] % (Len(rows) + 1)]]

\* sorted(unique_planes, key=...): stable
Sorted(rows) ==
  IF rows = <<>> THEN <<>> ELSE RowsOf(rows, Ascending(Tickets(rows)))

\* lines 184-211: one plane per key of planes_dict, in the order of the keys
UniquePlanes(keys, struc, image_order) ==
  [n \in DOMAIN keys |->
     Representative(Iterate(Images(struc, keys[n]), image_order))]

\* the keys of a dict are iterated in the order of their insertion
Collapsed(todo, keys, struc, image_order) ==
  Sorted(UniquePlanes(SelectSeq(todo, LAMBDA p : p \in keys), struc,
                      image_order))

FromCandidates(todo, struc, image_order) ==
  Collapsed(todo, SymmetryLoop(todo, Range(todo), struc), struc, image_order)

\* MillerSearch._get_unique_miller_indices, the sets being iterated in the
\* given orders
GetUniqueMillerIndices(struc, max_index, plane_order, image_order) ==
  FromCandidates(Iterate(ReducedPlanes(max_index), plane_order), struc,
                 image_order)

\* what a call of _get_unique_miller_indices raises: planes.remove((0, 0, 0))
\* a KeyError when the product holds no (0, 0, 0), np.vstack(unique_planes)
\* a ValueError when no plane is left to stack
Raises(max_index) ==
  IF <<0, 0, 0>> \notin Product(max_index) THEN "KeyError"
  ELSE IF ReducedPlanes(max_index) = {} THEN "ValueError"
  ELSE "nothing"

\* the max indices below 1 a MillerSearch may be given
LowIndices == {-1, 0}

\* no Interface has been constructed
NoInterface ==
  /\ phase = "Absent"
  /\ inputs = [center |-> FALSE]
  /\ substrate_supercell = NoStructure
  /\ film_supercell = NoStructure
  /\ interface = NoStructure
  /\ sub_part = <<>>
  /\ film_part = <<>>
  /\ interface_height = RZero
  /\ interfacial_distance = RZero
  /\ returned = NoReturned
  /\ last = NoCall
  /\ ncalls = 0

MillerInit ==
  /\ NoInterface
  /\ NoSurface
  /\ NoScan
  /\ NoDirections
  /\ NoMatching
  /\ bulk \in BulkStructures
  /\ max_substrate_index \in LowIndices \cup 1..MaxIndex
  /\ iteration = NoIteration
  /\ substrate_inds = <<>>
  /\ film_inds = <<>>
  /\ searched = "no"
  /\ raised = "nothing"

\* MillerSearch.__init__: self.substrate_inds =
\* self._get_unique_miller_indices(self.substrate, self.max_substrate_index);
\* an exception ends __init__
SearchSubstrate(plane_order, image_order) ==
  /\ searched = "no"
  /\ raised' = Raises(max_substrate_index)
  /\ IF raised' = "nothing"
     THEN /\ substrate_inds' = GetUniqueMillerIndices(bulk, max_substrate_index,
                                                     plane_order, image_order)
          /\ searched' = "substrate"
     ELSE /\ substrate_inds' = substrate_inds
          /\ searched' = "failed"
  /\ iteration' = [planes |-> plane_order, images |-> image_order]
  /\ UNCHANGED <<bulk, max_substrate_index, film_inds>>
  /\ UNCHANGED beside_search

\* MillerSearch.__init__: self.film_inds =
\* self._get_unique_miller_indices(self.film, self.max_film_index)
SearchFilm(plane_order, image_order) ==
  /\ searched = "substrate"
  /\ film_inds' = GetUniqueMillerIndices(bulk, max_substrate_index,
                                         plane_order, image_order)
  /\ iteration' = [planes |-> plane_order, images |-> image_order]
  /\ searched' = "both"
  /\ UNCHANGED <<bulk, max_substrate_index, substrate_inds, raised>>
  /\ UNCHANGED beside_search

MillerNext ==
  \/ \E plane_order \in IterationOrders, image_order \in IterationOrders :
       SearchSubstrate(plane_order, image_order)
  \/ \E plane_order \in IterationOrders, image_order \in IterationOrders :
       SearchFilm(plane_order, image_order)

--------------------------------------------------------------------------
(* Surface: remove_layers *)

\* the slabs of a Surface have up to MaxSlabLayers layers
MaxSlabLayers == 3

\* the species of the layers, bottom layer first
LayerSpecies ==
  UNION {[1..n -> {SubstrateOnly, Shared}] : n \in 1..MaxSlabLayers}

\* Surface.slab_pmg: a slab repeated in plane
SurfaceSlabs ==
  {MakeSupercell(SlabStructure(species, RInt(UnitCellA)), sx, 1) :
     species \in LayerSpecies, sx \in 1..MaxScale}

\* the order in which get_sorted_structure puts the species
SpeciesOrder == <<SubstrateOnly, Shared, FilmOnly>>

SitesOfSpecies(sites, sp) == SelectSeq(sites, LAMBDA site : site.sp = sp)

\* Structure.get_sorted_structure
GetSortedStructure(struc) ==
  [lattice |-> struc.lattice,
   sites |-> Flatten([k \in DOMAIN SpeciesOrder |->
                        SitesOfSpecies(struc.sites, SpeciesOrder[k])])]

\* get_primitive_standard_structure: the primitive cell, in the setting the
\* standardisation gives it
GetPrimitiveStandardStructure(structure, orientation) ==
  IF orientation = "kept" THEN GetPrimitiveStructure(structure)
  ELSE InvertAxis(GetPrimitiveStructure(structure))

\* Surface._get_primitive
GetPrimitive(structure, orientation) ==
  GetSortedStructure(GetPrimitiveStandardStructure(structure, orientation))

\* the heights of the sites
Heights(sites) == {site.z : site \in Range(sites)}

\* the place of a height among the heights, the lowest first
LayerOf(z, heights) == 1 + Cardinality({h \in heights : RLt(h, z)})

\* group_layers: the indices of the sites layer by layer, lowest layer first
GroupLayers(sites) ==
  [k \in 1..Cardinality(Heights(sites)) |->
     {i \in DOMAIN sites : LayerOf(sites[i].z, Heights(sites)) = k}]

\* group_inds[::-1]
Reversed(seq) == [k \in DOMAIN seq |-> seq[Len(seq) + 1 - k]]

\* the groups remove_layers goes through, from the bottom or from the top
GroupsFrom(sites, top) ==
  IF top THEN Reversed(GroupLayers(sites)) ELSE GroupLayers(sites)

\* to_delete_conv
ToDeleteConv(sites, num_layers, top) ==
  UNION {GroupsFrom(sites, top)[k] : k \in 1..num_layers}

\* to_delete_prim
ToDeletePrim(sites, num_layers, top) ==
  UNION {GroupsFrom(sites, top)[k] : k \in 1..num_layers}

Removed(struc, to_delete) ==
  [lattice |-> struc.lattice, sites |-> RemoveSites(struc.sites, to_delete)]

\* AseAtomsAdaptor.get_atoms: the cell, the symbols and the cartesian
\* positions of the sites of a Structure
GetAtoms(struc) ==
  [cell |-> struc.lattice,
   symbols |-> [i \in DOMAIN struc.sites |-> struc.sites[i].sp],
   positions |-> [i \in DOMAIN struc.sites |->
                    [x |-> RMul(struc.sites[i].x, struc.lattice.a),
                     z |-> RMul(struc.sites[i].z, struc.lattice.c)]]]

\* ase.geometry.get_layers(atoms, (0, 0, 1)): the layer of every atom, the
\* lowest layer 0, by its height along c
GetLayers(atoms) ==
  LET heights == {atoms.positions[i].z : i \in DOMAIN atoms.positions}
  IN  [i \in DOMAIN atoms.positions |->
         Cardinality({h \in heights : RLt(h, atoms.positions[i].z)})]

\* Surface._get_termination: the symbols of the atoms of the top layer of
\* slab_ase
GetTermination(atoms) ==
  LET z_layers == GetLayers(atoms)
      top_layer == {i \in DOMAIN z_layers :
                      \A j \in DOMAIN z_layers : z_layers[j] <= z_layers[i]}
  IN  {atoms.symbols[a] : a \in top_layer}

\* Surface.__init__: slab_pmg and slab_ase, primitive_slab_pmg and
\* primitive_slab_ase, and termination
SurfaceInit ==
  /\ NoInterface
  /\ NoSearch
  /\ NoScan
  /\ NoDirections
  /\ NoMatching
  /\ slab_pmg \in SurfaceSlabs
  /\ slab_ase = GetAtoms(slab_pmg)
  /\ \E orientation \in Orientations :
       /\ primitive_slab_pmg = GetPrimitive(slab_pmg, orientation)
       /\ primitive_slab_ase = GetAtoms(GetPrimitive(slab_pmg, orientation))
  /\ termination = GetTermination(slab_ase)
  /\ surface_raised = "nothing"
  /\ removals = 0

\* Surface.remove_layers(num_layers, top): group_inds[i] raises an
\* IndexError, before any site is removed, when either cell has fewer than
\* num_layers layers; the sites are removed from slab_pmg and
\* primitive_slab_pmg alone
RemoveLayers(num_layers, top) ==
  /\ removals < MaxCalls
  /\ removals' = removals + 1
  /\ IF \/ num_layers > Len(GroupLayers(slab_pmg.sites))
        \/ num_layers > Len(GroupLayers(primitive_slab_pmg.sites))
     THEN /\ surface_raised' = "IndexError"
          /\ UNCHANGED <<slab_pmg, primitive_slab_pmg>>
     ELSE /\ surface_raised' = "nothing"
          /\ slab_pmg' =
               Removed(slab_pmg, ToDeleteConv(slab_pmg.sites, num_layers, top))
          /\ primitive_slab_pmg' =
               Removed(primitive_slab_pmg,
                       ToDeletePrim(primitive_slab_pmg.sites, num_layers, top))
  /\ UNCHANGED <<slab_ase, primitive_slab_ase, termination>>
  /\ UNCHANGED beside_surface

SurfaceNext ==
  \E num_layers \in 0..MaxSlabLayers, top \in BOOLEAN :
    RemoveLayers(num_layers, top)

--------------------------------------------------------------------------
(* Surface: _get_crystallographic_directions *)

\* the components of miller_index take the values -MaxMiller .. MaxMiller
MaxMiller == 2

\* Python's a // b: the quotient rounded down
PyFloorDiv(a, b) == IF b > 0 THEN a \div b ELSE (-a) \div (-b)

\* ase.build.general_surface.ext_gcd
RECURSIVE ExtGcd(_, _)
ExtGcd(a, b) ==
  IF b = 0 THEN <<1, 0>>
  ELSE IF PyMod(a, b) = 0 THEN <<0, 1>>
  ELSE LET xy == ExtGcd(b, PyMod(a, b))
       IN  <<xy[2], xy[1] - xy[2] * PyFloorDiv(a, b)>>

\* np.dot of two vectors given by their components on the cell vectors
CellDot(cell, u, v) ==
  u[1] * MatVec(cell, v)[1] + u[2] * MatVec(cell, v)[2]
  + u[3] * MatVec(cell, v)[3]

\* k1 = np.dot(p * (k * a1 - h * a2) + q * (l * a1 - h * a3), l * a2 - k * a3)
K1(cell, h, k, l, p, q) ==
  CellDot(cell, <<p * k + q * l, -(p * h), -(q * h)>>, <<0, l, -k>>)

\* k2 = np.dot(l * (k * a1 - h * a2) - k * (l * a1 - h * a3), l * a2 - k * a3)
K2(cell, h, k, l) ==
  CellDot(cell, <<l * k - k * l, -(l * h), k * h>>, <<0, l, -k>>)

\* round(n / d): to the nearest integer, a half to the even one
RoundHalfEven(n, d) ==
  LET num == IF d > 0 THEN n ELSE -n
      den == Abs(d)
      low == num \div den
      twice == 2 * (num - low * den)
  IN  IF twice < den THEN low
      ELSE IF twice > den THEN low + 1
      ELSE IF low % 2 = 0 THEN low ELSE low + 1

\* i = -int(round(k1 / k2)) when abs(k2) > tol, and no correction otherwise
Correction(cell, h, k, l, p, q) ==
  IF K2(cell, h, k, l) # 0
  THEN -RoundHalfEven(K1(cell, h, k, l, p, q), K2(cell, h, k, l))
  ELSE 0

\* a variant of c2 that leaves out the division
C2Undivided(k, l) == <<0, l, -k>>

\* c2 = np.array((0, l, -k)) // abs(gcd(l, k))
C2(k, l) ==
  <<0, l \div Abs(GCD(Abs(l), Abs(k))), (-k) \div Abs(GCD(Abs(l), Abs(k)))>>

\* the branch for two zero indices
AxisBasis(h, k, l) ==
  IF l # 0 THEN <<<<1, 0, 0>>, <<0, 1, 0>>, <<0, 0, 1>>>>
  ELSE IF k # 0 THEN <<<<0, 0, 1>>, <<1, 0, 0>>, <<0, 1, 0>>>>
  ELSE <<<<0, 1, 0>>, <<0, 0, 1>>, <<1, 0, 0>>>>

TwoZero(h, k, l) ==
  \/ h = 0 /\ k = 0
  \/ h = 0 /\ l = 0
  \/ k = 0 /\ l = 0

\* the branch for at most one zero index
GeneralBasis(cell, h, k, l) ==
  LET pq0 == ExtGcd(k, l)
      i == Correction(cell, h, k, l, pq0[1], pq0[2])
      p == pq0[1] + i * l
      q == pq0[2] - i * k
      ab == ExtGcd(p * k + q * l, h)
  IN  [stage |-> "set",
       value |-> <<<<p * k + q * l, -(p * h), -(q * h)>>,
                   C2(k, l),
                   <<ab[2], ab[1] * p, ab[1] * q>>>>,
       p |-> p, q |-> q, i |-> i]

\* Surface._get_crystallographic_directions
GetCrystallographicDirections(cell, indices) ==
  IF indices = <<0, 0, 0>>
  THEN [UnsetDirections EXCEPT !.stage = "ValueError"]
  ELSE IF TwoZero(indices[1], indices[2], indices[3])
  THEN [UnsetDirections EXCEPT
          !.stage = "set",
          !.value = AxisBasis(indices[1], indices[2], indices[3])]
  ELSE GeneralBasis(cell, indices[1], indices[2], indices[3])

\* the products of the vectors (3, 1, 0), (1, 0, 0) and (3, 0, 1): a cell
\* given by long, nearly parallel vectors
ShearedCell == <<<<10, 3, 9>>, <<3, 1, 3>>, <<9, 3, 10>>>>

\* the cells of the bulk structures
BulkCells ==
  {struc.metric : struc \in BulkStructures \cup {Cubic}} \cup {ShearedCell}

\* a Surface with its miller_index and its bulk, before __init__ sets
\* crystallographic_directions
DirectionsInit ==
  /\ NoInterface
  /\ NoSearch
  /\ NoSurface
  /\ NoScan
  /\ NoMatching
  /\ miller_index \in Product(MaxMiller)
  /\ bulk_cell \in BulkCells
  /\ crystallographic_directions = UnsetDirections

\* self.crystallographic_directions = self._get_crystallographic_directions()
SetCrystallographicDirections ==
  /\ crystallographic_directions.stage = "unset"
  /\ crystallographic_directions' =
       GetCrystallographicDirections(bulk_cell, miller_index)
  /\ UNCHANGED <<miller_index, bulk_cell>>
  /\ UNCHANGED beside_directions

DirectionsNext == SetCrystallographicDirections

--------------------------------------------------------------------------
(* Interface: run_surface_matching *)

\* seq[k] of Python for a 0-based index k: a negative index counts from the
\* end
PyIndex(seq, k) == IF k < 0 THEN seq[Len(seq) + k + 1] ELSE seq[k + 1]

\* the heights group_layers returns, lowest layer first
LayerHeights(sites) ==
  [k \in 1..Cardinality(Heights(sites)) |->
     CHOOSE h \in Heights(sites) : LayerOf(h, Heights(sites)) = k]

\* the site indices of the layers, each in ascending order
LayerInds(sites) ==
  [k \in 1..Len(GroupLayers(sites)) |-> Ascending(GroupLayers(sites)[k])]

\* np.where(heights > self.interface_height) and
\* np.where(heights < self.interface_height), as 0-based indices
LayersAbove(heights, height) ==
  {k \in 0..(Len(heights) - 1) : RLt(height, heights[k + 1])}
LayersBelow(heights, height) ==
  {k \in 0..(Len(heights) - 1) : RLt(heights[k + 1], height)}

Smallest(numbers) == CHOOSE g \in numbers : \A h \in numbers : g <= h

\* lines 1514-1530: the layers next to the interface and the layers behind
\* them; np.min and np.max of no index raise a ValueError, an index past the
\* last layer an IndexError
SelectLayers(sites, height) ==
  LET layer_inds == LayerInds(sites)
      heights == LayerHeights(sites)
      n == Len(heights)
  IN  IF LayersAbove(heights, height) = {} \/ LayersBelow(heights, height) = {}
      THEN [IdleMatching EXCEPT !.stage = "failed", !.error = "ValueError",
                                !.layer_inds = layer_inds,
                                !.heights = heights]
      ELSE LET bot_film_ind == Smallest(LayersAbove(heights, height))
               top_sub_ind == Largest(LayersBelow(heights, height))
               second_film_ind == bot_film_ind + 1
               second_sub_ind == top_sub_ind - 1
               found == [IdleMatching EXCEPT
                           !.layer_inds = layer_inds, !.heights = heights,
                           !.bot_film_ind = bot_film_ind,
                           !.top_sub_ind = top_sub_ind,
                           !.second_film_ind = second_film_ind,
                           !.second_sub_ind = second_sub_ind]
           IN  IF second_film_ind >= n
               THEN [found EXCEPT !.stage = "failed", !.error = "IndexError"]
               ELSE [found EXCEPT
                       !.stage = "layers",
                       !.fi = PyIndex(layer_inds, bot_film_ind),
                       !.fi2 = PyIndex(layer_inds, second_film_ind),
                       !.si = PyIndex(layer_inds, top_sub_ind),
                       !.si2 = PyIndex(layer_inds, second_sub_ind)]

\* film_z_shift and sub_z_shift
FilmZShift(m) ==
  RSub(PyIndex(m.heights, m.bot_film_ind),
       PyIndex(m.heights, m.second_film_ind))
SubZShift(m) ==
  RSub(PyIndex(m.heights, m.top_sub_ind),
       PyIndex(m.heights, m.second_sub_ind))

\* the pairs np.repeat(si, len(fi)) and np.tile(fi, len(si)) line up
PairsOf(si, fi) ==
  Flatten([i \in 1..Len(si) |-> [j \in 1..Len(fi) |-> <<si[i], fi[j]>>]])

\* a variant that leaves the difference as it is
Unwrapped(shift) == shift

\* x_shift[x_shift < 0] += 1 and x_shift[x_shift > 1] -= 1
Wrapped(shift) ==
  IF RLt(shift, RZero) THEN RAdd(shift, ROne)
  ELSE IF RLt(ROne, shift) THEN RSub(shift, ROne)
  ELSE shift

\* the offsets of the nine concatenated copies of x_shift and y_shift
ImageOffsets ==
  <<[x |-> -1, y |-> -1], [x |-> -1, y |-> 0], [x |-> -1, y |-> 1],
    [x |-> 0, y |-> -1], [x |-> 0, y |-> 0], [x |-> 0, y |-> 1],
    [x |-> 1, y |-> -1], [x |-> 1, y |-> 0], [x |-> 1, y |-> 1]>>

\* a row of frac_shifts.dot(matrix): the centre mus and the height
\* difference; sigmas and scales have one entry for every row. The sites of
\* the model lie on the line y = 0 of a cell with equal in-plane vectors
CartShift(struc, pair, offset, sub_z_shift, film_z_shift) ==
  [x |-> RMul(RAdd(Wrapped(RSub(struc.sites[pair[1]].x,
                                struc.sites[pair[2]].x)),
                   RInt(offset.x)),
              struc.lattice.a),
   y |-> RMul(RAdd(Wrapped(RZero), RInt(offset.y)), struc.lattice.a),
   z |-> RMul(RSub(RAdd(struc.sites[pair[1]].z, sub_z_shift),
                   RAdd(struc.sites[pair[2]].z, film_z_shift)),
              struc.lattice.c)]

\* _get_score_function_params and _get_score_function_params_old: the rows
\* of cart_shifts, the nine copies one after the other
GetScoreFunctionParams(struc, si, fi, sub_z_shift, film_z_shift) ==
  Flatten([m \in 1..9 |->
             [p \in 1..Len(PairsOf(si, fi)) |->
                CartShift(struc, PairsOf(si, fi)[p], ImageOffsets[m],
                          sub_z_shift, film_z_shift)]])

\* lines 1514-1578 of run_surface_matching
WithParams(struc, m) ==
  IF m.stage # "layers" THEN m
  ELSE [m EXCEPT
          !.stage = "params",
          !.mus_orig = GetScoreFunctionParams(struc, m.si, m.fi, RZero, RZero),
          !.mus_sub = GetScoreFunctionParams(struc, m.si2, m.fi,
                                             SubZShift(m), RZero),
          !.mus_film = GetScoreFunctionParams(struc, m.si, m.fi2,
                                              RZero, FilmZShift(m))]

\* run_surface_matching, down to the parameters of the three landscapes
MatchingStart ==
  /\ phase = "Finalized"
  /\ matching.stage = "idle"
  /\ matching' = WithParams(interface,
                            SelectLayers(interface.sites, interface_height))
  /\ UNCHANGED ivars
  /\ UNCHANGED beside_matching

\* the descent of adam is run from up to MaxWalkers initial positions
MaxWalkers == 2

\* the fractional in-plane positions at which a descent may end: one a
\* little outside the cell, one in its middle
TerminalPositions ==
  {[x |-> Rat(-1, 250), y |-> RZero], [x |-> RHalf, y |-> RZero]}

Terminals == UNION {[1..n -> TerminalPositions] : n \in 1..MaxWalkers}

\* lines 1013-1039: the last row of opt_x and opt_y in fractional
\* coordinates, its nine periodic images one after the other
FoldedImages(terminals) ==
  Flatten([m \in 1..9 |->
             [w \in 1..Len(terminals) |->
                [x |-> RAdd(terminals[w].x, RInt(ImageOffsets[m].x)),
                 y |-> RAdd(terminals[w].y, RInt(ImageOffsets[m].y))]]])

\* .dot(matrix) and .dot(inv_matrix) of in-plane points
ToCartesian(struc, points) ==
  [k \in DOMAIN points |->
     [x |-> RMul(points[k].x, struc.lattice.a),
      y |-> RMul(points[k].y, struc.lattice.a)]]
ToFractional(struc, points) ==
  [k \in DOMAIN points |->
     [x |-> RDiv(points[k].x, struc.lattice.a),
      y |-> RDiv(points[k].y, struc.lattice.a)]]

\* the number of the points that lie at a point
CountAt(points, point) ==
  Cardinality({k \in DOMAIN points : points[k] = point})

\* the order in which MeanShift returns its centres: the ones with more
\* points first, then the ones with the larger coordinates
Before(points, c, d) ==
  \/ CountAt(points, c) > CountAt(points, d)
  \/ /\ CountAt(points, c) = CountAt(points, d)
     /\ \/ RLt(d.x, c.x)
        \/ d.x = c.x /\ RLt(d.y, c.y)

RECURSIVE CentersInOrder(_, _)
CentersInOrder(points, centres) ==
  IF centres = {} THEN <<>>
  ELSE LET first == CHOOSE c \in centres :
                      \A d \in centres \ {c} : Before(points, c, d)
       IN  <<first>> \o CentersInOrder(points, centres \ {first})

\* MeanShift(bandwidth).fit(points).cluster_centers_ for points that
\* coincide or lie farther apart than the bandwidth: every distinct point
\* is the centre of its own cluster
MeanShiftCenters(points) == CentersInOrder(points, Range(points))

\* frac_centers.round(2)
Round2(v) == Rat(RoundHalfEven(v.n * 100, v.d), 100)

\* inds_in_cell: the centres whose rounded fractional coordinates lie in
\* [0, 1)
RoundsIntoCell(c) ==
  /\ ~RLt(Round2(c.x), RZero) /\ RLt(Round2(c.x), ROne)
  /\ ~RLt(Round2(c.y), RZero) /\ RLt(Round2(c.y), ROne)

\* centers_in_cell of adam
CentersInCell(struc, centers) ==
  ToCartesian(struc, SelectSeq(ToFractional(struc, centers), RoundsIntoCell))

\* adam (lines 1007-1047), from the positions at which its descent ends
Adam(terminals) ==
  /\ matching.stage = "params"
  /\ matching' =
       [matching EXCEPT
          !.stage = "clustered",
          !.clustered = ToCartesian(interface, FoldedImages(terminals)),
          !.all_centers_orig =
             CentersInCell(interface,
               MeanShiftCenters(ToCartesian(interface,
                                            FoldedImages(terminals))))]
  /\ UNCHANGED ivars
  /\ UNCHANGED beside_matching

\* the values of the primary landscape at a centre, and of the two
\* depth-corrected landscapes: sums of values rounded to four decimals
PesValues == {Rat(1, 10000), Rat(2, 10000)}
DepthValues == {[sub |-> RZero, film |-> RZero],
                [sub |-> Rat(1, 10000), film |-> Rat(1, 10000)]}

\* np.round(value, 4)
Round4(v) == Rat(RoundHalfEven(v.n * 10000, v.d), 10000)

\* PES_rank_values_1
RankValues1(m) ==
  [k \in DOMAIN m.PES_values_orig |-> Round4(m.PES_values_orig[k])]

\* degenerate_min_inds: the centres of the least rounded primary value,
\* unique_PES_values_1[0]
DegenerateMinInds(m) ==
  {k \in DOMAIN RankValues1(m) : RankValues1(m)[k] = RMinOf(RankValues1(m))}

\* PES_rank_values_2, by the index of the centre
RankValue2(m, k) ==
  Round4(RSum(<<m.PES_values_orig[k], m.PES_values_sub[k],
                m.PES_values_film[k]>>))

\* np.linalg.norm of a centre, squared
DistanceSquared(c) == RAdd(RMul(c.x, c.x), RMul(c.y, c.y))

\* u[np.argmin(np.linalg.norm(min_centers_orig[u], axis=1))]: of the
\* centres of one rounded sum the closest to the origin, the first of them
\* when several are as close
UniqueShiftInd(m, inds) ==
  Smallest({k \in inds :
              \A j \in inds :
                ~RLt(DistanceSquared(m.all_centers_orig[j]),
                     DistanceSquared(m.all_centers_orig[k]))})

\* min_shift_inds: np.argmax over the rounded sums of unique_shift_inds
MinShiftInd(m) ==
  UniqueShiftInd(m,
    {k \in DegenerateMinInds(m) :
       \A j \in DegenerateMinInds(m) :
         ~RLt(RankValue2(m, k), RankValue2(m, j))})

\* lines 1588-1625: the values of the landscapes at the centres, and the
\* centre that is returned; unique_PES_values_1[0] raises an IndexError
\* when there is no centre
Ranked(m) ==
  IF m.all_centers_orig = <<>>
  THEN [m EXCEPT !.stage = "failed", !.error = "IndexError"]
  ELSE [m EXCEPT !.stage = "ranked",
                 !.min_center_orig = <<m.all_centers_orig[MinShiftInd(m)]>>]

Rank(values, depths) ==
  /\ matching.stage = "clustered"
  /\ matching' =
       Ranked([matching EXCEPT
                 !.PES_values_orig = values,
                 !.PES_values_sub = [k \in DOMAIN depths |-> depths[k].sub],
                 !.PES_values_film = [k \in DOMAIN depths |-> depths[k].film]])
  /\ UNCHANGED ivars
  /\ UNCHANGED beside_matching

\* the inputs run_surface_matching is explored from: slabs of one chemistry
\* each, stacked one Angstrom apart and centered in a cell with vacuum
MatchInputs ==
  {inp \in InterfaceInputs :
     /\ \A s \in Range(inp.substrate.sites) : s.sp = SubstrateOnly
     /\ \A s \in Range(inp.film.sites) : s.sp = FilmOnly
     /\ inp.interfacial_distance = RInt(1)
     /\ inp.vacuum = RInt(BigVacuum)
     /\ inp.center}

MatchNext ==
  \/ InterfaceInit
  \/ MatchingStart
  \/ \E terminals \in Terminals : Adam(terminals)
  \/ \E values \in [DOMAIN matching.all_centers_orig -> PesValues],
        depths \in [DOMAIN matching.all_centers_orig -> DepthValues] :
       Rank(values, depths)

vars == <<ivars, mvars, svars, pvars, dvars, xvars>>

Init == InterfaceStart(PlainInputs)
Next == INext

\* the life of one Interface object
Spec == Init /\ [][Next]_vars

\* the construction of an Interface from every input of the model
BuildInit == InterfaceStart(InterfaceInputs)
BuildNext == InterfaceInit
BuildSpec == BuildInit /\ [][BuildNext]_vars

\* the worker-pool scans of a finalized Interface
ScanInit == InterfaceStart(ScanInputs)
ScanSpec == ScanInit /\ [][ScanNext]_vars

\* the two enumerations of a MillerSearch on one bulk structure
MillerSpec == MillerInit /\ [][MillerNext]_vars

\* the life of one Surface object
SurfaceSpec == SurfaceInit /\ [][SurfaceNext]_vars

\* run_surface_matching on a finalized Interface
MatchInit == InterfaceStart(MatchInputs)
MatchSpec == MatchInit /\ [][MatchNext]_vars

\* the crystallographic directions of a Surface of every Miller index on
\* every bulk cell
DirectionsSpec == DirectionsInit /\ [][DirectionsNext]_vars

--------------------------------------------------------------------------
(* Properties of the construction (BuildSpec) *)

\* the stacked structure the refinement chain was given
StackedStructure ==
  Stack(StrainAndOrient(substrate_supercell,
                        GetInterfaceSlVecs(substrate_supercell)),
        StrainAndOrient(film_supercell,
                        GetInterfaceSlVecs(substrate_supercell)),
        inputs.vacuum, inputs.interfacial_distance).struc

SupercellSites == Len(substrate_supercell.sites) + Len(film_supercell.sites)

\* C1, as stated: the finalized interface has exactly as many sites as the
\* substrate supercell and the film supercell together.
C1_SiteCountConserved ==
  phase = "Finalized" => Len(interface.sites) = SupercellSites

\* C1, amended: the finalized interface holds the sites of the two
\* supercells divided by the number of in-plane translations that map the
\* stacked cell onto itself (get_primitive_structure keeps one site of each
\* set of translation-equivalent sites), which is the count of the two
\* supercells whenever no translation but the identity does so.
C1_SiteCountOfPrimitiveCell ==
  phase = "Finalized" =>
    Len(interface.sites) * TranslationOrder(StackedStructure) = SupercellSites

\* C1, witness: an interface of two doubled supercells, finalized with fewer
\* sites than the supercells hold
C1_Witness ==
  /\ phase = "Finalized"
  /\ inputs.substrate_transformation = 2
  /\ inputs.film_transformation = 2
  /\ Len(interface.sites) < SupercellSites

\* the sites of the interface above and below interface_height, in order
HigherSites == RemoveSites(interface.sites,
                           {i \in DOMAIN interface.sites :
                              ~RLt(interface_height, interface.sites[i].z)})
LowerSites == RemoveSites(interface.sites,
                          {i \in DOMAIN interface.sites :
                             ~RLt(interface.sites[i].z, interface_height)})

\* C8, as stated: at finalization film_part holds exactly the sites higher
\* than interface_height, sub_part exactly the sites lower than it, and the
\* two views together have as many sites as the interface, none twice.
C8_ViewsPartition ==
  phase = "Finalized" =>
    /\ film_part = HigherSites
    /\ sub_part = LowerSites
    /\ Len(film_part) + Len(sub_part) = Len(interface.sites)

\* the species exclusive to the substrate and to the film of the inputs
Exclusive == ExclusiveSpecies(inputs.substrate, inputs.film)

\* the interface was finalized from two slabs with exclusive species each
BothExclusive ==
  /\ phase = "Finalized"
  /\ Exclusive.substrate # {}
  /\ Exclusive.film # {}

\* C16, as stated: in a finalized interface with substrate-exclusive and
\* film-exclusive species the mean height of the film-exclusive sites is not
\* below the mean height of the substrate-exclusive sites, with or without
\* the flip and with or without centering.
C16_FilmAboveSubstrate ==
  BothExclusive => ~FilmBelowSubstrate(interface.sites, Exclusive)

\* C17, as stated: no Interface is finalized from slabs of which one has no
\* species of its own; the construction fails instead.
C17_SharedChemistryFails ==
  phase = "Finalized" => (Exclusive.substrate # {} /\ Exclusive.film # {})

\* the sites of the given species
SitesWith(species) ==
  {i \in DOMAIN interface.sites : interface.sites[i].sp \in species}

\* the boundary between substrate and film lies at the height: no site of a
\* substrate-exclusive species above it, none of a film-exclusive species
\* below it
BoundaryAt(height) ==
  /\ SitesWith(Exclusive.substrate) \cap SitesAbove(interface.sites, height)
       = {}
  /\ SitesWith(Exclusive.film) \cap SitesBelow(interface.sites, height) = {}

\* interface_height as computed at stacking
StackedHeight ==
  Stack(StrainAndOrient(substrate_supercell,
                        GetInterfaceSlVecs(substrate_supercell)),
        StrainAndOrient(film_supercell,
                        GetInterfaceSlVecs(substrate_supercell)),
        inputs.vacuum, inputs.interfacial_distance).interface_height

\* the sites of the refined structure, flipped if the flip was applied, as
\* they are before the centering step
Uncentered ==
  IF last.flipped
  THEN FlipStructure(Refine(StackedStructure, last.orientation)).sites
  ELSE Refine(StackedStructure, last.orientation).sites

\* C18, as stated: with center requested interface_height is 0.5 and the
\* boundary between substrate and film lies at height 0.5; without it
\* interface_height is the value computed at stacking and the sites are
\* where the steps before left them.
C18_CenteredAtHalf ==
  phase = "Finalized" =>
    IF inputs.center
    THEN interface_height = RHalf /\ BoundaryAt(RHalf)
    ELSE interface_height = StackedHeight /\ interface.sites = Uncentered

--------------------------------------------------------------------------
(* Properties of the operations on a finalized interface (Spec) *)

\* a step that is a call of shift_film
ShiftFilmCalled == ncalls' = ncalls + 1 /\ last'.op = "shift_film"

\* C2: a cartesian shift_film whose z-component added to
\* interfacial_distance is below 0.5 fails, with inplace True or False, and
\* leaves the interface sites, film_part, interface_height and
\* interfacial_distance as they were.
C2_InvalidShiftRejected ==
  [][(/\ ShiftFilmCalled
      /\ ~last'.fractional
      /\ RLt(RAdd(last'.shift.z, interfacial_distance), Rat(1, 2)))
     => /\ ~last'.ok
        /\ UNCHANGED <<interface, film_part, interface_height,
                       interfacial_distance>>]_vars

\* C2, witness: an in-place cartesian shift has just been rejected
C2_Witness ==
  /\ last.op = "shift_film"
  /\ ~last.ok
  /\ last.inplace
  /\ RLt(RAdd(last.shift.z, interfacial_distance), Rat(1, 2))

\* the structure a call of shift_film has translated
Translated(inplace, own, copy) == IF inplace THEN own ELSE copy

\* C3, as stated: a successful shift_film translates every site higher than
\* interface_height by the shift and leaves every other site where it was.
C3_ExactlyFilmSideMoved ==
  [][(ShiftFilmCalled /\ last'.ok)
     => Translated(last'.inplace, interface'.sites, returned'.sites)
          = TranslateSites(interface.sites,
                           SitesAbove(interface.sites, interface_height),
                           last'.frac_shift)]_vars

\* C4, as stated: after a successful in-place shift_film, fractional or
\* cartesian, interfacial_distance has changed by the cartesian z-component
\* of the translation applied to the film (its fractional z-component times
\* the length of the out-of-plane lattice vector), and interface_height by
\* half the fractional z-component.
C4_DistanceFollowsTranslation ==
  [][(ShiftFilmCalled /\ last'.ok /\ last'.inplace)
     => /\ interfacial_distance'
             = RAdd(interfacial_distance,
                    RMul(last'.frac_shift.z, interface.lattice.c))
        /\ interface_height'
             = RAdd(interface_height, RMul(last'.frac_shift.z, Rat(1, 2)))]_vars

\* C5, as stated: shift_film with inplace=False leaves the Interface's own
\* sites, film_part, sub_part, interface_height and interfacial_distance as
\* they were, and so does a later modification of the structure it returned.
C5_OriginalUntouched ==
  [][(\/ ShiftFilmCalled /\ last'.ok /\ ~last'.inplace
      \/ ncalls' = ncalls + 1 /\ last'.op = "modify_returned")
     => UNCHANGED <<interface, film_part, sub_part, interface_height,
                    interfacial_distance>>]_vars

\* a call of shift_film that succeeded, cartesian and in place
CartesianInPlace(call) ==
  /\ call.op = "shift_film"
  /\ call.ok
  /\ ~call.fractional
  /\ call.inplace

\* C6: a successful cartesian in-place shift_film(v) directly followed by a
\* successful cartesian in-place shift_film(-v) restores interfacial_distance
\* to its value before the first of the two calls.
C6_RoundTripRestoresDistance ==
  [][(/\ CartesianInPlace(last)
      /\ ShiftFilmCalled
      /\ CartesianInPlace(last')
      /\ last'.shift = [x |-> RNeg(last.shift.x), z |-> RNeg(last.shift.z)])
     => interfacial_distance' = last.distance_before]_vars

\* C6, witness: shift_film by +1 Angstrom along z and then by -1 Angstrom,
\* both cartesian and in place, have succeeded
C6_Witness ==
  /\ ncalls = 2
  /\ CartesianInPlace(last)
  /\ last.shift = [x |-> RZero, z |-> RInt(-1)]
  /\ last.distance_before = RAdd(inputs.interfacial_distance, RInt(1))
  /\ interfacial_distance = inputs.interfacial_distance

\* C7, as stated: a finalized interface stays finalized, and a call of any
\* public operation other than shift_film leaves its lattice, its sites,
\* interface_height and interfacial_distance unchanged.
C7_OnlyShiftFilmMutates ==
  [][/\ phase = "Finalized" => phase' = "Finalized"
     /\ (/\ ncalls' = ncalls + 1
         /\ last'.op \in ReadOps \cup {"create_ga_candidate"})
        => UNCHANGED <<interface, interface_height,
                       interfacial_distance>>]_vars

--------------------------------------------------------------------------
(* Properties of the Miller-index search (MillerSpec) *)

\* the places of a list of indices, each with the images of its index under
\* the supplied operations
ClassesOf(inds) == {<<n, Images(bulk, inds[n])>> : n \in DOMAIN inds}

\* the classes the plane is an image in
ClassesWith(plane, classes) == {class \in classes : plane \in class[2]}

ExactlyOneEach(inds, classes) ==
  /\ \A plane \in ReducedPlanes(max_substrate_index) :
       Cardinality(ClassesWith(plane, classes)) = 1
  /\ \A class \in classes : ClassesWith(inds[class[1]], classes) = {class}

OneIndexPerClass(inds) == ExactlyOneEach(inds, ClassesOf(inds))

\* C9: _get_unique_miller_indices returns one index per symmetry-equivalence
\* class: every reduced candidate plane is an image, under some supplied
\* operation, of exactly one returned index, and no returned index is an
\* image of another.
C9_OneIndexPerClass ==
  /\ searched \in {"substrate", "both"} => OneIndexPerClass(substrate_inds)
  /\ searched = "both" => OneIndexPerClass(film_inds)

\* C9, witness: an enumeration on the hexagonal structure has collapsed the
\* candidate planes into fewer classes
C9_Witness ==
  /\ searched # "no"
  /\ bulk = Hexagonal
  /\ Len(substrate_inds) > 1
  /\ Len(substrate_inds) < Cardinality(ReducedPlanes(max_substrate_index))

InFamily(inds, nonzero) ==
  {n \in DOMAIN inds : NormSquared(inds[n]) = nonzero}

\* the number of indices returned for the structure with its axes relabeled
RelabeledCount(perm) ==
  Len(GetUniqueMillerIndices(Relabel(bulk, perm), max_substrate_index,
                             iteration.planes, iteration.images))

\* the count of returned indices is that of every relabeling of the axes
SameCountRelabeled ==
  \A perm \in AxisRelabelings : RelabeledCount(perm) = Len(substrate_inds)

\* an enumeration of a cubic structure with max index 1 has returned
CubicSearched ==
  /\ searched # "no"
  /\ bulk \in CubicStructures
  /\ max_substrate_index = 1

\* C11, as stated: for a cubic bulk and max index 1 the enumeration returns
\* three indices, exactly one of each of the families {100}, {110} and
\* {111}, and as many under every relabeling of the three axes.
C11_ThreeCubicFamilies ==
  CubicSearched =>
    /\ Len(substrate_inds) = 3
    /\ \A nonzero \in 1..3 :
         Cardinality(InFamily(substrate_inds, nonzero)) = 1
    /\ SameCountRelabeled

\* some operation of the structure turns (1, 1, 1) into (-1, -1, -1)
Reverses111(struc) == <<-1, -1, -1>> \in Images(struc, <<1, 1, 1>>)

\* C11, amended: for a cubic bulk and max index 1 the enumeration returns
\* exactly one index of {100} and one of {110}; of {111} it returns one when
\* an operation of the point group turns (1, 1, 1) into (-1, -1, -1) (m-3m,
\* 432, m-3) and two, (1, 1, 1) and (-1, -1, -1), when none does (23,
\* -43m); the number of returned indices is the same under every relabeling
\* of the three axes.
C11_CubicFamiliesByPointGroup ==
  CubicSearched =>
    /\ Cardinality(InFamily(substrate_inds, 1)) = 1
    /\ Cardinality(InFamily(substrate_inds, 2)) = 1
    /\ IF Reverses111(bulk)
       THEN /\ Cardinality(InFamily(substrate_inds, 3)) = 1
            /\ Len(substrate_inds) = 3
       ELSE /\ {substrate_inds[n] : n \in InFamily(substrate_inds, 3)}
                 = {<<1, 1, 1>>, <<-1, -1, -1>>}
            /\ Len(substrate_inds) = 4
    /\ SameCountRelabeled

\* C11, witness: the 26 triples of a bulk with the 48 operations of m-3m
\* have been collapsed into (1, 0, 0), (1, 1, 0) and (1, 1, 1)
C11_Witness ==
  /\ CubicSearched
  /\ Cardinality(bulk.symmops) = 48
  /\ Cardinality(Planes(max_substrate_index)) = 26
  /\ substrate_inds = <<<<1, 0, 0>>, <<1, 1, 0>>, <<1, 1, 1>>>>

\* C12, as stated: an enumeration with max index below 1 fails with the
\* InvalidMillerIndex error, returns no list, and no surface or interface
\* has been constructed.
C12_InvalidMillerIndexRaised ==
  (searched # "no" /\ max_substrate_index < 1)
    => /\ raised = "InvalidMillerIndex"
       /\ searched = "failed"
       /\ substrate_inds = <<>>
       /\ phase = "Absent"

--------------------------------------------------------------------------
(* Properties of Surface.remove_layers (SurfaceSpec) *)

\* the number of sites of each species
Counts(sites) ==
  [k \in DOMAIN SpeciesOrder |-> Len(SitesOfSpecies(sites, SpeciesOrder[k]))]

\* the two lists hold the species in the same proportions
SameProportions(sites, other) ==
  \A j \in DOMAIN SpeciesOrder, k \in DOMAIN SpeciesOrder :
    Counts(sites)[j] * Counts(other)[k] = Counts(sites)[k] * Counts(other)[j]

\* C13, as stated: after remove_layers, for any number of layers and either
\* end, the conventional slab and the primitive slab hold the same species
\* in the same proportions.
C13_SameChemistry ==
  removals > 0 =>
    /\ SpeciesOf(slab_pmg) = SpeciesOf(primitive_slab_pmg)
    /\ SameProportions(slab_pmg.sites, primitive_slab_pmg.sites)

\* the class of a plane: its images under the operations of the bulk
ClassOf(plane) == Images(bulk, plane)

\* the members of a class with the largest absolute sum of component signs
MostAlike(class) ==
  {p \in class : \A q \in class : Diff(q) <= Diff(p)}

\* the members of a class with the most non-negative components
MostlyPositive(class) ==
  {p \in class : \A q \in class : NonNegatives(q) <= NonNegatives(p)}

\* of the given members, those with the largest absolute first component
LargestFirst(members) ==
  {p \in members : \A q \in members : AbsFirst(q) <= AbsFirst(p)}

\* of the given members, those with the largest absolute second component
LargestSecond(members) ==
  {p \in members : \A q \in members : AbsSecond(q) <= AbsSecond(p)}

\* of the given members, those with the largest sum of component signs
LargestSignSum(members) ==
  {p \in members : \A q \in members : SignSum(q) <= SignSum(p)}

ComponentSum(plane) == plane[1] + plane[2] + plane[3]

\* of the given members, those with the largest sum of components
LargestComponentSum(members) ==
  {p \in members : \A q \in members : ComponentSum(q) <= ComponentSum(p)}

\* the members the chain of the statement leaves
StatedChain(class) ==
  LargestComponentSum(LargestSecond(LargestFirst(MostlyPositive(class))))

\* the members the chain of lines 187-211 leaves
LikeSignsChain(class) ==
  LargestSignSum(LargestSecond(LargestFirst(MostAlike(class))))

\* the lists an enumeration has returned
ReturnedLists ==
  IF searched = "both" THEN {substrate_inds, film_inds}
  ELSE IF searched = "substrate" THEN {substrate_inds}
  ELSE {}

\* C19, as stated: every returned index is the member of its class selected
\* by the chain: the most non-negative components, then the largest absolute
\* first component, then the largest absolute second component, then the
\* largest signed component sum.
C19_MostNonNegativeFirst ==
  \A inds \in ReturnedLists : \A n \in DOMAIN inds :
    inds[n] \in StatedChain(ClassOf(inds[n]))

\* C19, amended: every returned index is a member of its class selected by
\* the chain: the largest absolute value of the sum of the component signs,
\* then the largest absolute first component, then the largest absolute
\* second component, then the largest sum of the component signs.
C19_LikeSignsFirst ==
  \A inds \in ReturnedLists : \A n \in DOMAIN inds :
    inds[n] \in LikeSignsChain(ClassOf(inds[n]))

\* C19, witness: (-1, -1, -1) has been returned for a class of four planes,
\* the other three having two positive components
C19_Witness ==
  /\ searched \in {"substrate", "both"}
  /\ \E n \in DOMAIN substrate_inds :
       /\ substrate_inds[n] = <<-1, -1, -1>>
       /\ Cardinality(ClassOf(substrate_inds[n])) = 4
       /\ <<1, 1, -1>> \in ClassOf(substrate_inds[n])

\* two indices in the order of the sort: the norm does not decrease, and
\* with equal norms the sum of the component signs does not increase
InOrder(a, b) ==
  /\ NormSquared(a) <= NormSquared(b)
  /\ NormSquared(a) = NormSquared(b) => SignSum(a) >= SignSum(b)

\* C20: the returned list is sorted: for any two consecutive indices the
\* Euclidean norm does not decrease, and among indices of equal norm the sum
\* of the component signs does not increase.
C20_SortedByNormThenSigns ==
  \A inds \in ReturnedLists : \A n \in 1..(Len(inds) - 1) :
    InOrder(inds[n], inds[n + 1])

\* C20, witness: a returned list in which the norm grows at one place and,
\* at another, two indices of one norm differ in the sum of their signs
C20_Witness ==
  /\ searched \in {"substrate", "both"}
  /\ \E n \in 1..(Len(substrate_inds) - 1) :
       NormSquared(substrate_inds[n]) < NormSquared(substrate_inds[n + 1])
  /\ \E n \in 1..(Len(substrate_inds) - 1) :
       /\ NormSquared(substrate_inds[n]) = NormSquared(substrate_inds[n + 1])
       /\ SignSum(substrate_inds[n]) > SignSum(substrate_inds[n + 1])

--------------------------------------------------------------------------
(* Properties of the worker-pool scans (ScanSpec) *)

\* the value for the i-th shift of the grid applied to the interface as it
\* was when the scan was called
ValueAt(i) ==
  Configuration(AddShift(scan.before.sites,
                         SitesAbove(scan.before.sites,
                                    scan.before.interface_height),
                         FracShiftsOfGrid[i]))

\* every result that has come is the value for the shift of its place
ResultsInPlace(values) ==
  \A i \in 1..NumTasks : values[i] # NoValue => values[i] = ValueAt(i)

\* the Interface of the caller is as it was when the scan was called
AsBeforeScan ==
  /\ interface.sites = scan.before.sites
  /\ film_part = scan.before.film_part
  /\ interface_height = scan.before.interface_height
  /\ interfacial_distance = scan.before.interfacial_distance

\* C14: in a worker-pool scan every worker works on its own copy of the
\* interface and one shift: with any number of workers and any interleaving
\* the i-th result is the value for the i-th shift applied to the unshifted
\* interface, a worker between two tasks holds the unshifted interface, and
\* the caller's interface is not changed while the pool runs.
C14_WorkersIsolated ==
  /\ ResultsInPlace(results)
  /\ ResultsInPlace(scan.atoms_list)
  /\ \A w \in 1..MaxWorkers :
       (workers[w].at > 0 /\ ~workers[w].busy)
         => Configuration(workers[w].structure)
              = Configuration(scan.interface)
  /\ scan.stage = "pool" => AsBeforeScan

\* C14, witness: two workers are inside _ewald_sum at once, each with its
\* copy translated by another shift, and a result for a shift that moves the
\* film has come
C14_Witness ==
  /\ scan.stage = "pool"
  /\ Head(scan.pools) = "_ewald_sum"
  /\ workers[1].busy
  /\ workers[2].busy
  /\ workers[1].structure # workers[2].structure
  /\ \E i \in 1..NumTasks :
       /\ results[i] # NoValue
       /\ results[i] # Configuration(scan.before.sites)

\* C15: if a worker function raises, the scan fails: no results are
\* returned, no task is run twice, and the sites, film_part,
\* interface_height and interfacial_distance of the interface stay as they
\* were before the scan.
C15_FailureFailsScan ==
  scan.failed =>
    /\ \A i \in 1..NumTasks : scan.attempts[i] <= 1
    /\ AsBeforeScan
    /\ scan.stage # "pool" => (scan.stage = "failed" /\ results = NoResults)

\* C15, witness: a scan on two workers has failed after one task raised and
\* other tasks had returned their values
C15_Witness ==
  /\ scan.stage = "failed"
  /\ scan.failed
  /\ scan.nworkers = 2
  /\ scan.raised = 1
  /\ Cardinality({i \in 1..NumTasks : scan.attempts[i] = 1}) = NumTasks

--------------------------------------------------------------------------
(* Further properties of the construction (BuildSpec) and of shift_film
   (Spec) *)

\* the sites of the interface of the given species are all in the view
AllIn(species, view) ==
  \A i \in SitesWith(species) : interface.sites[i] \in Range(view)

\* C25, as stated: in a finalized interface with substrate-exclusive and
\* film-exclusive species every site of a film-exclusive species is higher
\* than interface_height and in film_part, and every site of a
\* substrate-exclusive species is lower than interface_height and in
\* sub_part, whatever the refinement and the flip did.
C25_SplitAgreesWithChemistry ==
  BothExclusive =>
    /\ SitesWith(Exclusive.film)
         \subseteq SitesAbove(interface.sites, interface_height)
    /\ SitesWith(Exclusive.substrate)
         \subseteq SitesBelow(interface.sites, interface_height)
    /\ AllIn(Exclusive.film, film_part)
    /\ AllIn(Exclusive.substrate, sub_part)

\* C26, as stated: an Interface built with interfacial_distance >= 0.5 has
\* interfacial_distance >= 0.5 after any sequence of shift_film calls that
\* returned without error, cartesian or fractional, in place or not.
C26_DistanceStaysPhysical ==
  (phase = "Finalized" /\ ~RLt(inputs.interfacial_distance, MinDistance))
    => ~RLt(interfacial_distance, MinDistance)

\* the sites that are left of a list when those that meet the test are
\* removed: the sites higher than the height, the sites lower than it
SitesHigher(sites, height) ==
  RemoveSites(sites, {i \in DOMAIN sites : ~RLt(height, sites[i].z)})

SitesLower(sites, height) ==
  RemoveSites(sites, {i \in DOMAIN sites : ~RLt(sites[i].z, height)})

\* the two views hold the sites of either side of the height
ViewsAgree(sites, film, sub, height) ==
  /\ film = SitesHigher(sites, height)
  /\ sub = SitesLower(sites, height)

\* C27, as stated: a successful in-place shift_film on an interface whose
\* views agree with it leaves them in agreement: film_part holds the
\* species and coordinates of the interface sites higher than
\* interface_height, sub_part those of the sites lower than it.
C27_ViewsFollowShift ==
  [][(/\ ShiftFilmCalled
      /\ last'.ok
      /\ last'.inplace
      /\ ViewsAgree(interface.sites, film_part, sub_part, interface_height))
     => ViewsAgree(interface'.sites, film_part', sub_part',
                   interface_height')]_vars

--------------------------------------------------------------------------
(* Further properties of the worker-pool scans (ScanSpec) *)

\* the film sites of the interface the scan was called on
FilmBeforeScan ==
  SitesAbove(scan.before.sites, scan.before.interface_height)

\* the interface is the one the scan was called on with its film sites
\* translated in plane, once, by a shift of the grid
ShiftedOnce ==
  \E k \in 1..GridDensity :
    interface.sites
      = TranslateSites(scan.before.sites, FilmBeforeScan, FracShiftsOfGrid[k])

\* a scan has gone through its pools without a failure of a worker, and was
\* called with shift=True
ScannedWithShift ==
  /\ scan.stage \in {"returned", "failed"}
  /\ scan.kind \in ScanKinds
  /\ ~scan.failed
  /\ scan.shift

\* C30, as stated: in a scan with shift=True every probe shift has been
\* evaluated against the unshifted interface, the winning shift has been
\* applied in place, once, after the probes, and interfacial_distance and
\* interface_height are what they were before the scan.
C30_ShiftAfterProbes ==
  ScannedWithShift =>
    /\ \A i \in 1..NumTasks : results[i] = ValueAt(i)
    /\ scan.stage = "returned"
    /\ ShiftedOnce
    /\ interface_height = scan.before.interface_height
    /\ interfacial_distance = scan.before.interfacial_distance

--------------------------------------------------------------------------
(* Further properties of the Surface (SurfaceSpec) *)

\* the species of the topmost layer of a structure
TopLayerSpecies(struc) ==
  {site.sp : site \in {t \in Range(struc.sites) :
                         \A u \in Range(struc.sites) : ~RLt(t.z, u.z)}}

\* C28, as stated: after construction and after any calls of remove_layers,
\* termination is the set of species of the topmost layer of the current
\* slab, and the ASE forms of the slab and of the primitive slab hold the
\* sites of the pymatgen forms.
C28_TerminationAndAseCurrent ==
  /\ termination = TopLayerSpecies(slab_pmg)
  /\ slab_ase = GetAtoms(slab_pmg)
  /\ primitive_slab_ase = GetAtoms(primitive_slab_pmg)

--------------------------------------------------------------------------
(* Properties of the crystallographic directions (DirectionsSpec) *)

\* the index is in lowest terms
LowestTerms(indices) ==
  GCD(GCD(Abs(indices[1]), Abs(indices[2])), Abs(indices[3])) = 1

\* h*u + k*v + l*w
InPlane(indices, row) ==
  indices[1] * row[1] + indices[2] * row[2] + indices[3] * row[3] = 0

\* the axis of the nonzero index of an index with two zeros
AxisOf(indices) ==
  <<Abs(Sign(indices[1])), Abs(Sign(indices[2])), Abs(Sign(indices[3]))>>

\* C21: for a nonzero Miller index in lowest terms the directions are a
\* matrix of determinant 1 or -1 whose first two rows lie in the plane,
\* whatever the correction term i; with two zero indices the rows are the
\* three axes, the third the axis of the nonzero index.
C21_UnimodularInPlane ==
  (crystallographic_directions.stage # "unset"
   /\ miller_index # <<0, 0, 0>> /\ LowestTerms(miller_index)) =>
    /\ crystallographic_directions.stage = "set"
    /\ Det(crystallographic_directions.value) \in {1, -1}
    /\ InPlane(miller_index, crystallographic_directions.value[1])
    /\ InPlane(miller_index, crystallographic_directions.value[2])
    /\ TwoZero(miller_index[1], miller_index[2], miller_index[3]) =>
         /\ crystallographic_directions.value[3] = AxisOf(miller_index)
         /\ {crystallographic_directions.value[r] : r \in 1..3}
              = {<<1, 0, 0>>, <<0, 1, 0>>, <<0, 0, 1>>}

\* C21, witness: the directions of an index in lowest terms with no zero,
\* computed with a correction term beyond 1
C21_Witness ==
  /\ crystallographic_directions.stage = "set"
  /\ LowestTerms(miller_index)
  /\ \A r \in 1..3 : miller_index[r] # 0
  /\ Abs(crystallographic_directions.i) > 1

--------------------------------------------------------------------------
(* Properties of run_surface_matching (MatchSpec) *)

\* run_surface_matching has built the parameters of its landscapes
HasParams == matching.stage \notin {"idle", "failed"}

\* the in-plane separation of a pair, of its periodic images the one of
\* least length
MinimumSeparation(struc, pair) ==
  LET d == RMod1(RSub(struc.sites[pair[1]].x, struc.sites[pair[2]].x))
  IN  IF RLt(RHalf, d) THEN RMul(RSub(d, ROne), struc.lattice.a)
      ELSE RMul(d, struc.lattice.a)

\* C24, as stated: the parameters hold one Gaussian for every pair of a
\* substrate atom and a film atom of the interacting layers, S*F in all,
\* centered at the pair's minimum in-plane separation over the periodic
\* images.
C24_OneGaussianPerPair ==
  HasParams =>
    /\ Len(matching.mus_orig) = Len(matching.si) * Len(matching.fi)
    /\ \A p \in 1..(Len(matching.si) * Len(matching.fi)) :
         /\ matching.mus_orig[p].x
              = MinimumSeparation(interface, PairsOf(matching.si, matching.fi)[p])
         /\ matching.mus_orig[p].y = RZero

\* the centre of the m-th periodic image of the separation of a pair: the
\* separation taken into the cell, moved by -1, 0 or 1 cell along either
\* in-plane vector
ImageCentre(struc, pair, m) ==
  [x |-> RMul(RAdd(RMod1(RSub(struc.sites[pair[1]].x, struc.sites[pair[2]].x)),
                   RInt(((m - 1) \div 3) - 1)),
              struc.lattice.a),
   y |-> RMul(RInt(((m - 1) % 3) - 1), struc.lattice.a)]

\* the parameters hold nine Gaussians for every pair, one at each image
NinePerPair(mus, struc, si, fi) ==
  /\ Len(mus) = 9 * Len(si) * Len(fi)
  /\ \A p \in 1..(Len(si) * Len(fi)), m \in 1..9 :
       LET row == mus[(m - 1) * Len(si) * Len(fi) + p]
       IN  [x |-> row.x, y |-> row.y] = ImageCentre(struc, PairsOf(si, fi)[p], m)

\* C24, amended: the parameters hold nine Gaussians for every pair of a
\* substrate atom and a film atom of the interacting layers, 9*S*F in all:
\* one centered at the pair's in-plane separation taken into the cell, and
\* one at each of its eight neighbouring periodic images.
C24_NineGaussiansPerPair ==
  HasParams =>
    /\ NinePerPair(matching.mus_orig, interface, matching.si, matching.fi)
    /\ NinePerPair(matching.mus_sub, interface, matching.si2, matching.fi)
    /\ NinePerPair(matching.mus_film, interface, matching.si, matching.fi2)

\* C24, witness: parameters built for more than one pair, the substrate
\* atom of a pair behind its film atom along the in-plane vector
C24_Witness ==
  /\ HasParams
  /\ Len(PairsOf(matching.si, matching.fi)) > 1
  /\ \E p \in 1..Len(PairsOf(matching.si, matching.fi)) :
       RLt(interface.sites[PairsOf(matching.si, matching.fi)[p][1]].x,
           interface.sites[PairsOf(matching.si, matching.fi)[p][2]].x)

\* the sites of a layer lie on the given side of the interface
AllBelow(inds) ==
  \A k \in 1..Len(inds) : RLt(interface.sites[inds[k]].z, interface_height)
AllAbove(inds) ==
  \A k \in 1..Len(inds) : RLt(interface_height, interface.sites[inds[k]].z)

\* C29, as stated: the layers of the depth-correction terms lie on their
\* own side of the interface: the second substrate layer is the layer below
\* interface_height directly under the top substrate layer, the second film
\* layer the layer above interface_height directly over the bottom film
\* layer, and with a single substrate or film layer no layer of the other
\* side stands in.
C29_DepthLayersOnOwnSide ==
  HasParams =>
    /\ AllBelow(matching.si2)
    /\ AllAbove(matching.fi2)
    /\ matching.si2 = matching.layer_inds[matching.top_sub_ind]
    /\ matching.fi2 = matching.layer_inds[matching.bot_film_ind + 2]

\* the fractional in-plane coordinates lie inside the unit cell
InsideCell(struc, c) ==
  /\ ~RLt(RDiv(c.x, struc.lattice.a), RZero)
  /\ RLt(RDiv(c.x, struc.lattice.a), ROne)
  /\ ~RLt(RDiv(c.y, struc.lattice.a), RZero)
  /\ RLt(RDiv(c.y, struc.lattice.a), ROne)

\* C23, as stated: of the nine periodic images of the terminal positions
\* only the ones inside the unit cell are clustered: mean-shift receives no
\* point outside the cell, and every basin representative that is returned
\* has its fractional in-plane coordinates inside the cell.
C23_ClusteredInsideCell ==
  matching.stage \in {"clustered", "ranked"} =>
    /\ \A k \in DOMAIN matching.clustered :
         InsideCell(interface, matching.clustered[k])
    /\ \A k \in DOMAIN matching.all_centers_orig :
         InsideCell(interface, matching.all_centers_orig[k])

\* the centre of the given index is ranked first
RankedFirst(m, k) ==
  /\ \A j \in DOMAIN m.all_centers_orig :
       ~RLt(RankValues1(m)[j], RankValues1(m)[k])
  /\ \A j \in DOMAIN m.all_centers_orig :
       RankValues1(m)[j] = RankValues1(m)[k]
         => ~RLt(RankValue2(m, j), RankValue2(m, k))
  /\ \A j \in DOMAIN m.all_centers_orig :
       (RankValues1(m)[j] = RankValues1(m)[k]
        /\ RankValue2(m, j) = RankValue2(m, k))
         => ~RLt(DistanceSquared(m.all_centers_orig[j]),
                 DistanceSquared(m.all_centers_orig[k]))

\* C22, as stated: run_surface_matching returns a basin representative of
\* the lowest rounded primary value; of the ones tied on it, one of the
\* lowest rounded sum of the primary and the depth-corrected values; of the
\* ones still tied, the one closest to the cell origin.
C22_LowestRankedFirst ==
  matching.stage = "ranked" =>
    \E k \in DOMAIN matching.all_centers_orig :
      /\ matching.min_center_orig = <<matching.all_centers_orig[k]>>
      /\ RankedFirst(matching, k)

====
